---- MODULE Spec2Model ----
(***************************************************************************)
(* TraceFinder: the artifact collection and normalisation core.            *)
(*                                                                         *)
(* Instants are counted in microseconds since 1601-01-01T00:00:00Z, the    *)
(* resolution of a Python datetime.  These counts, and the 64-bit FILETIME *)
(* tick counts they are converted from, do not fit the model checker's     *)
(* integers, so a natural number is written as the sequence of its base    *)
(* 10000 digits, least significant first, without leading zero digits      *)
(* (the number 0 is the empty sequence).                                   *)
(***************************************************************************)
EXTENDS Integers, Sequences, FiniteSets, TLC

VARIABLES
    window,          \* the TriageWindow of the run
    pc,              \* position of main(): "start", "prompt", "answered",
                     \* "construct", "idle" (the window is built), "collect",
                     \* "done", "reported"; "exited" after sys.exit(1); the
                     \* name of the exception that ended main()
    call,            \* the last stand-alone call: operation, input, result
    idx,             \* collect_all_artifacts: index of the next collector
    all_findings,    \* collect_all_artifacts: the aggregated list
    returned,        \* what each collector called so far returned or raised
    sorted_findings, \* main(): the list after sort_findings_by_timestamp
    tmp_files,       \* temporary database copies that exist on disk
    unclosed_keys,   \* registry handles opened and never passed to CloseKey
    argv,            \* sys.argv[1:]
    response,        \* the answer input() returned, until main() acted on it
    clock,           \* the system clock, in microseconds since 1601
    invoked,         \* the collectors called so far and the window each got
    statistics       \* what print_statistics printed

vars ==
    <<window, pc, call, idx, all_findings, returned, sorted_findings, tmp_files,
      unclosed_keys, argv, response, clock, invoked, statistics>>

(***************************************************************************)
(* Natural numbers of arbitrary size                                       *)
(***************************************************************************)
RECURSIVE BigNorm(_)
BigNorm(a) ==
    IF a = <<>> THEN a
    ELSE IF a[Len(a)] = 0 THEN BigNorm(SubSeq(a, 1, Len(a) - 1))
    ELSE a

RECURSIVE BigFromInt(_)
BigFromInt(n) ==
    IF n = 0 THEN <<>> ELSE <<n % 10000>> \o BigFromInt(n \div 10000)

\* Big(<<13, 3485, 4080, 0, 10>>) is 133485408000000010: groups of four
\* decimal digits, most significant first.
RECURSIVE BigRev(_)
BigRev(g) == IF g = <<>> THEN <<>> ELSE BigRev(Tail(g)) \o <<Head(g)>>

Big(g) == BigNorm(BigRev(g))

RECURSIVE BigCmpFrom(_, _, _)
BigCmpFrom(a, b, i) ==
    IF i = 0 THEN 0
    ELSE IF a[i] < b[i] THEN -1
    ELSE IF a[i] > b[i] THEN 1
    ELSE BigCmpFrom(a, b, i - 1)

\* -1, 0 or 1 as a < b, a = b or a > b
BigCmp(a, b) ==
    IF Len(a) < Len(b) THEN -1
    ELSE IF Len(a) > Len(b) THEN 1
    ELSE BigCmpFrom(a, b, Len(a))

BigLeq(a, b) == BigCmp(a, b) <= 0
BigLess(a, b) == BigCmp(a, b) < 0

RECURSIVE BigAddC(_, _, _)
BigAddC(a, b, c) ==
    IF a = <<>> /\ b = <<>> THEN (IF c = 0 THEN <<>> ELSE <<c>>)
    ELSE LET x == IF a = <<>> THEN 0 ELSE Head(a)
             y == IF b = <<>> THEN 0 ELSE Head(b)
             t == x + y + c
         IN  <<t % 10000>> \o BigAddC(IF a = <<>> THEN a ELSE Tail(a),
                                     IF b = <<>> THEN b ELSE Tail(b),
                                     t \div 10000)

BigAdd(a, b) == BigAddC(a, b, 0)

\* a - b for a >= b
RECURSIVE BigSubC(_, _, _)
BigSubC(a, b, c) ==
    IF a = <<>> THEN <<>>
    ELSE LET y == IF b = <<>> THEN 0 ELSE Head(b)
             t == Head(a) - y - c
         IN  <<IF t < 0 THEN t + 10000 ELSE t>>
             \o BigSubC(Tail(a), IF b = <<>> THEN b ELSE Tail(b),
                        IF t < 0 THEN 1 ELSE 0)

BigSub(a, b) == BigNorm(BigSubC(a, b, 0))

\* a * k for a small factor 0 <= k <= 200000
RECURSIVE BigMulC(_, _, _)
BigMulC(a, k, c) ==
    IF a = <<>> THEN BigFromInt(c)
    ELSE LET t == Head(a) * k + c
         IN  <<t % 10000>> \o BigMulC(Tail(a), k, t \div 10000)

BigMulSmall(a, k) == BigNorm(BigMulC(a, k, 0))

\* quotient and remainder of a by a small divisor 0 < d <= 200000
RECURSIVE BigDivFrom(_, _, _, _)
BigDivFrom(a, d, i, r) ==
    IF i = 0 THEN [q |-> <<>>, r |-> r]
    ELSE LET t == r * 10000 + a[i]
             rest == BigDivFrom(a, d, i - 1, t % d)
         IN  [q |-> rest.q \o <<t \div d>>, r |-> rest.r]

BigDivSmall(a, d) == BigNorm(BigDivFrom(a, d, Len(a), 0).q)
BigModSmall(a, d) == BigDivFrom(a, d, Len(a), 0).r

BigLow(a) == IF a = <<>> THEN 0 ELSE Head(a)
BigHigh(a) == IF a = <<>> THEN a ELSE Tail(a)
BigIsOdd(a) == BigLow(a) % 2 = 1

\* quotient and remainder of a by d * 10000, the remainder an integer
BigQuot(a, d) == BigDivSmall(BigHigh(a), d)
BigRem(a, d) == BigModSmall(BigHigh(a), d) * 10000 + BigLow(a)

RECURSIVE Pow2(_)
Pow2(s) == IF s = 0 THEN 1 ELSE 2 * Pow2(s - 1)

\* a * 2^s and a \div 2^s, sixteen bits at a time
RECURSIVE BigShl(_, _)
BigShl(a, s) ==
    IF s > 16 THEN BigShl(BigMulSmall(a, 65536), s - 16)
    ELSE BigMulSmall(a, Pow2(s))

RECURSIVE BigShr(_, _)
BigShr(a, s) ==
    IF s > 16 THEN BigShr(BigDivSmall(a, 65536), s - 16)
    ELSE BigDivSmall(a, Pow2(s))

\* a mod 2^s
BigLowBits(a, s) == BigSub(a, BigShl(BigShr(a, s), s))


(***************************************************************************)
(* datetime, timedelta and double-precision arithmetic                     *)
(***************************************************************************)
Million(a) == BigMulSmall(BigMulSmall(a, 1000), 1000)

\* None, or a datetime: its wall-clock reading `wall`, and for an aware one
\* its UTC offset `off` in minutes (a naive datetime has aware = FALSE)
None == [none |-> TRUE, aware |-> FALSE, wall |-> <<>>, off |-> 0]
UtcDatetime(us) == [none |-> FALSE, aware |-> TRUE, wall |-> us, off |-> 0]
NaiveDatetime(us) == [none |-> FALSE, aware |-> FALSE, wall |-> us, off |-> 0]
ZonedDatetime(us, m) == [none |-> FALSE, aware |-> TRUE, wall |-> us, off |-> m]

\* datetime.max, 9999-12-31T23:59:59.999999, in microseconds since 1601
MaxDatetimeUs == Big(<<26, 5046, 7743, 9999, 9999>>)

\* the instant of an aware datetime east of Greenwich: wall - utcoffset
UtcInstant(dt) == BigSub(dt.wall, Million(BigFromInt(dt.off * 60)))

\* a <= b between aware datetimes
DatetimeLeq(a, b) == BigLeq(UtcInstant(a), UtcInstant(b))

\* timedelta(minutes=m), in microseconds
TimedeltaMinutes(m) == Million(BigMulSmall(BigFromInt(m), 60))

\* the divisor 2 * r compared with d decides the rounding of q + r / d to
\* the nearest integer, ties to the even one
RoundHalfEven(q, cmp) ==
    IF cmp > 0 \/ (cmp = 0 /\ BigIsOdd(q)) THEN BigAdd(q, <<1>>) ELSE q

Two52 == BigShl(<<1>>, 52)
Two53 == BigShl(<<1>>, 53)

FILETIME_TICKS_PER_SECOND == 10000000

\* A double is written m / 2^s.  n / FILETIME_TICKS_PER_SECOND between
\* Python integers is the double nearest to the quotient: n is doubled
\* until the integer quotient has 53 bits, which is then rounded.
RECURSIVE DivScale(_, _)
DivScale(n, s) ==
    LET d == FILETIME_TICKS_PER_SECOND \div 10000
    IN  IF BigLess(BigQuot(BigMulSmall(n, 65536), d), Two52)
        THEN DivScale(BigMulSmall(n, 65536), s + 16)
        ELSE IF BigLess(BigQuot(BigMulSmall(n, 16), d), Two52)
        THEN DivScale(BigMulSmall(n, 16), s + 4)
        ELSE IF BigLess(BigQuot(n, d), Two52)
        THEN DivScale(BigMulSmall(n, 2), s + 1)
        ELSE [n |-> n, s |-> s]

\* 2 * r compared with the divisor
HalfCmp(r) ==
    IF 2 * r > FILETIME_TICKS_PER_SECOND THEN 1
    ELSE IF 2 * r = FILETIME_TICKS_PER_SECOND THEN 0 ELSE -1

\* the scaled numerator sc.n divided and rounded to the 53 bits of a double
RoundedQuotient(sc) ==
    [m |-> RoundHalfEven(BigQuot(sc.n, FILETIME_TICKS_PER_SECOND \div 10000),
                         HalfCmp(BigRem(sc.n, FILETIME_TICKS_PER_SECOND \div 10000))),
     s |-> sc.s]

TrueDivide(n) == RoundedQuotient(DivScale(n, 0))

\* the number of low bits a product loses when it is stored in a double
RECURSIVE ExcessBits(_, _)
ExcessBits(p, k) ==
    IF ~BigLess(BigShr(p, k + 8), Two53) THEN ExcessBits(p, k + 8)
    ELSE IF ~BigLess(BigShr(p, k), Two53) THEN ExcessBits(p, k + 1)
    ELSE k

\* p / 2^k rounded to an integer, ties to even
RoundShift(p, k) ==
    IF k = 0 THEN p
    ELSE RoundHalfEven(BigShr(p, k),
                       BigCmp(BigMulSmall(BigLowBits(p, k), 2), BigShl(<<1>>, k)))

\* whole microseconds plus dnum / 2^scale microseconds: what is left below
\* a microsecond is rounded half to even
RoundedMicroseconds(whole, dnum, scale) ==
    RoundHalfEven(BigAdd(whole, BigShr(dnum, scale)),
                  BigCmp(BigMulSmall(BigLowBits(dnum, scale), 2), BigShl(<<1>>, scale)))

\* the fraction times 1e6 is prod / 2^s; stored in a double it loses its
\* `lost` lowest bits
FractionMicroseconds(whole, prod, s, lost) ==
    RoundedMicroseconds(whole, RoundShift(prod, lost), s - lost)

\* math.modf has split the seconds into intpart and fracpart / 2^s
SplitMicroseconds(intpart, fracpart, s) ==
    IF fracpart = <<>> THEN Million(intpart)
    ELSE FractionMicroseconds(Million(intpart), Million(fracpart), s,
                              ExcessBits(Million(fracpart), 0))

\* timedelta(seconds=f) for a double f >= 0: whole seconds are exact, the
\* fraction is multiplied by 1e6 in double arithmetic and what is left
\* below a microsecond is rounded half to even
TimedeltaSeconds(f) == SplitMicroseconds(BigShr(f.m, f.s), BigLowBits(f.m, f.s), f.s)

\* a datetime of `total` microseconds: OverflowError beyond datetime.max
DatetimeOf(total) ==
    IF BigLeq(total, MaxDatetimeUs)
    THEN [raised |-> FALSE, value |-> UtcDatetime(total)]
    ELSE [raised |-> TRUE, value |-> None]

\* epoch + timedelta
DatetimeAdd(epoch_us, delta_us) == DatetimeOf(BigAdd(epoch_us, delta_us))

\* an optional 64-bit integer
NoInt == [none |-> TRUE, n |-> <<>>]
SomeInt(n) == [none |-> FALSE, n |-> n]

FILETIME_EPOCH == <<>>

\* the result of a try block that returns None from its except clause
ValueOrNone(r) == IF r.raised THEN None ELSE r.value

filetime_to_datetime(filetime) ==
    IF filetime.none \/ filetime.n = <<>> THEN None
    ELSE ValueOrNone(DatetimeAdd(FILETIME_EPOCH,
                                 TimedeltaSeconds(TrueDivide(filetime.n))))

(***************************************************************************)
(* TriageWindow                                                            *)
(***************************************************************************)
\* 0001-01-01T00:00:00, datetime.min, lies this many microseconds before
\* 1601-01-01 (584388 days)
YearOneToEpoch == Big(<<5, 491, 1232, 0, 0>>)

\* __init__ raises OverflowError when current_time - timedelta(minutes=...)
\* is no datetime: before datetime.min, or for a negative size past
\* datetime.max
TriageWindowOverflows(now, window_minutes) ==
    IF window_minutes >= 0
    THEN BigLess(BigAdd(now, YearOneToEpoch), TimedeltaMinutes(window_minutes))
    ELSE BigLess(MaxDatetimeUs, BigAdd(now, TimedeltaMinutes(-window_minutes)))

\* __init__ where it does not raise (sizes that put the cutoff before 1601
\* are not among the model's inputs)
TriageWindow(now, window_minutes) ==
    [window_minutes |-> window_minutes,
     current_time |-> UtcDatetime(now),
     cutoff_time |->
         UtcDatetime(IF window_minutes >= 0
                     THEN BigSub(now, TimedeltaMinutes(window_minutes))
                     ELSE BigAdd(now, TimedeltaMinutes(-window_minutes)))]

\* no TriageWindow has been constructed
NoWindow == [window_minutes |-> 0, current_time |-> None, cutoff_time |-> None]

\* TriageWindow(window_minutes=...): the object, or the exception
new_TriageWindow(now, window_minutes) ==
    IF TriageWindowOverflows(now, window_minutes)
    THEN [raised |-> TRUE, value |-> NoWindow]
    ELSE [raised |-> FALSE, value |-> TriageWindow(now, window_minutes)]

\* is_within_window with the end of the window left out (< for <=)
is_within_window_open_end(self, timestamp) ==
    IF timestamp.none THEN FALSE
    ELSE LET ts == IF ~timestamp.aware
                   THEN [timestamp EXCEPT !.aware = TRUE, !.off = 0]
                   ELSE timestamp
         IN  DatetimeLeq(self.cutoff_time, ts) /\ ~DatetimeLeq(self.current_time, ts)

is_within_window(self, timestamp) ==
    IF timestamp.none THEN FALSE
    ELSE LET ts == IF ~timestamp.aware
                   THEN [timestamp EXCEPT !.aware = TRUE, !.off = 0]
                   ELSE timestamp
         IN  DatetimeLeq(self.cutoff_time, ts) /\ DatetimeLeq(ts, self.current_time)

(***************************************************************************)
(* Text and Findings                                                       *)
(*                                                                         *)
(* A str is a sequence of one-character strings; a fixed piece of text     *)
(* that no operation looks into (a label, a registry value name such as    *)
(* MRUList) is kept as a single element.                                   *)
(***************************************************************************)
\* s.rstrip(chars): drop every trailing character that is in chars
RECURSIVE rstrip(_, _)
rstrip(s, chars) ==
    IF s = <<>> THEN s
    ELSE IF s[Len(s)] \in chars THEN rstrip(SubSeq(s, 1, Len(s) - 1), chars)
    ELSE s

\* dt.strftime('%Y-%m-%d %H:%M:%S UTC'): the reading to the whole second
strftime(dt) == BigDivSmall(BigDivSmall(dt.wall, 1000), 1000)

Finding(dt, artifact_type, source, description, details) ==
    [timestamp |-> strftime(dt),
     timestamp_dt |-> dt,
     artifact_type |-> artifact_type,
     source |-> source,
     description |-> description,
     details |-> details]

\* what a parser call does: the list it returns, or an exception
\* and the temporary files it leaves on disk
Returns(findings) == [raised |-> FALSE, findings |-> findings, tmp |-> {}]
Raises == [raised |-> TRUE, findings |-> <<>>, tmp |-> {}]

(***************************************************************************)
(* collectors/commands.py: parse_runmru                                    *)
(*                                                                         *)
(* A registry key as the parser sees it: `open` is "ok", "notfound" or     *)
(* "denied"; last_modified is the FILETIME QueryInfoKey reports; values    *)
(* is what EnumValue yields index by index, each with a name, a type       *)
(* ("REG_SZ" text or "REG_DWORD" number) and data (for a number: empty     *)
(* when it is 0).                                                          *)
(***************************************************************************)
MRUList == <<"MRUList">>

\* the EnumValue loop of parse_runmru from `index` on.  A value whose data
\* is no text has no rstrip: the AttributeError leaves the loop and is
\* swallowed by the handler around the whole parser.
RECURSIVE runmru_values(_, _, _, _)
runmru_values(values, index, key_modified, findings) ==
    IF index > Len(values) THEN findings
    ELSE LET val == values[index]
         IN  IF val.name # MRUList /\ val.data # <<>>
             THEN IF val.type # "REG_SZ" THEN findings
                  ELSE runmru_values(values, index + 1, key_modified,
                           Append(findings,
                                  Finding(key_modified, "Command Line", "RunMRU",
                                          rstrip(val.data, {"\\", "1"}),
                                          <<"Entry: ">> \o val.name)))
             ELSE runmru_values(values, index + 1, key_modified, findings)

\* the values are read when the key was modified inside the window
runmru_key(triage_window, key, key_modified) ==
    IF ~key_modified.none /\ is_within_window(triage_window, key_modified)
    THEN Returns(runmru_values(key.values, 1, key_modified, <<>>))
    ELSE Returns(<<>>)

parse_runmru(triage_window, key) ==
    IF key.open # "ok" THEN Returns(<<>>)
    ELSE runmru_key(triage_window, key, filetime_to_datetime(key.last_modified))

\* the handles parse_runmru holds without having passed them to CloseKey
\* when it returns: CloseKey(key) follows the loop, and the AttributeError
\* of a value that is no text goes past it
runmru_unclosed(triage_window, key) ==
    IF /\ key.open = "ok"
       /\ ~filetime_to_datetime(key.last_modified).none
       /\ is_within_window(triage_window, filetime_to_datetime(key.last_modified))
       /\ \E i \in 1 .. Len(key.values) :
              /\ key.values[i].name # MRUList /\ key.values[i].data # <<>>
              /\ key.values[i].type # "REG_SZ"
    THEN {<<"parse_runmru", "key">>}
    ELSE {}

(***************************************************************************)
(* collectors/execution.py: parse_userassist                               *)
(*                                                                         *)
(* The two GUID keys are given in the order the parser opens them.  A      *)
(* value's data is REG_BINARY (its length `len` and the fields the parser  *)
(* unpacks at offsets 4, 8 and 60) or REG_DWORD, a number.                 *)
(***************************************************************************)
Alphabet ==
    <<"a", "b", "c", "d", "e", "f", "g", "h", "i", "j", "k", "l", "m",
      "n", "o", "p", "q", "r", "s", "t", "u", "v", "w", "x", "y", "z">>
UpperAlphabet ==
    <<"A", "B", "C", "D", "E", "F", "G", "H", "I", "J", "K", "L", "M",
      "N", "O", "P", "Q", "R", "S", "T", "U", "V", "W", "X", "Y", "Z">>

IsLower(c) == \E i \in 1 .. 26 : Alphabet[i] = c
IsUpper(c) == \E i \in 1 .. 26 : UpperAlphabet[i] = c
LowerIndex(c) == CHOOSE i \in 1 .. 26 : Alphabet[i] = c
UpperIndex(c) == CHOOSE i \in 1 .. 26 : UpperAlphabet[i] = c

\* codecs.decode(name, 'rot_13')
rot_13(name) ==
    [i \in 1 .. Len(name) |->
        IF IsLower(name[i]) THEN Alphabet[((LowerIndex(name[i]) + 12) % 26) + 1]
        ELSE IF IsUpper(name[i])
        THEN UpperAlphabet[((UpperIndex(name[i]) + 12) % 26) + 1]
        ELSE name[i]]

\* userassist_entry without the window filter: every value with a last-run
\* time is reported
userassist_entry_unfiltered(val, last_run_dt, triage_window) ==
    IF val.len >= 72 /\ ~last_run_dt.none
    THEN <<Finding(last_run_dt, "Execution", "UserAssist", rot_13(val.name),
                   <<"Run Count: ", ToString(val.run_count),
                     ", Focus Time: ", ToString(val.focus_time), "ms">>)>>
    ELSE <<>>

\* what a value of at least 72 bytes adds to the findings
userassist_entry(val, last_run_dt, triage_window) ==
    IF /\ val.len >= 72
       /\ ~last_run_dt.none
       /\ is_within_window(triage_window, last_run_dt)
    THEN <<Finding(last_run_dt, "Execution", "UserAssist", rot_13(val.name),
                   <<"Run Count: ", ToString(val.run_count),
                     ", Focus Time: ", ToString(val.focus_time), "ms">>)>>
    ELSE <<>>

\* the EnumValue loop over one Count key.  len() of a number raises a
\* TypeError, which only the handler around the whole parser catches.
RECURSIVE userassist_values(_, _, _, _)
userassist_values(values, index, triage_window, findings) ==
    IF index > Len(values) THEN [raised |-> FALSE, findings |-> findings]
    ELSE IF values[index].type # "REG_BINARY"
    THEN [raised |-> TRUE, findings |-> findings]
    ELSE userassist_values(values, index + 1, triage_window,
             findings \o userassist_entry(values[index],
                             filetime_to_datetime(SomeInt(values[index].last_run)),
                             triage_window))

\* the loop over the GUID keys: a key that is missing or denied is skipped
RECURSIVE userassist_keys(_, _, _, _)
userassist_keys(keys, g, triage_window, findings) ==
    IF g > Len(keys) THEN findings
    ELSE IF keys[g].open # "ok"
    THEN userassist_keys(keys, g + 1, triage_window, findings)
    ELSE LET r == userassist_values(keys[g].values, 1, triage_window, findings)
         IN  IF r.raised THEN r.findings
             ELSE userassist_keys(keys, g + 1, triage_window, r.findings)

parse_userassist(triage_window, keys) ==
    Returns(userassist_keys(keys, 1, triage_window, <<>>))

\* the handles parse_userassist holds without having passed them to
\* CloseKey when it returns: CloseKey(key) follows the loop, and the
\* TypeError of a value that is a number goes past it
RECURSIVE userassist_unclosed(_, _, _)
userassist_unclosed(keys, g, triage_window) ==
    IF g > Len(keys) THEN {}
    ELSE IF keys[g].open # "ok" THEN userassist_unclosed(keys, g + 1, triage_window)
    ELSE IF userassist_values(keys[g].values, 1, triage_window, <<>>).raised
    THEN {<<"parse_userassist", "key">>}
    ELSE userassist_unclosed(keys, g + 1, triage_window)

(***************************************************************************)
(* collectors/execution.py: parse_prefetch                                 *)
(*                                                                         *)
(* A file's st_mtime is given in microseconds since 1970, which            *)
(* datetime.fromtimestamp turns into a datetime or, beyond year 9999,      *)
(* into a ValueError.  `exists` and `listing` tell how Path.exists() and   *)
(* glob() end: "yes"/"no" or "ok", "denied" (PermissionError) or           *)
(* "oserror" (any other OSError).                                          *)
(***************************************************************************)
\* 1970-01-01T00:00:00Z in microseconds since 1601
Epoch1970 == Big(<<1, 1644, 4736, 0, 0>>)

\* datetime.fromtimestamp(t, tz=timezone.utc): range_error is the exception
\* the platform raises for a time it cannot represent ("OSError" where the
\* C library's gmtime fails first, "ValueError" elsewhere)
fromtimestamp(us, range_error) ==
    LET r == DatetimeAdd(Epoch1970, us)
    IN  [raised |-> IF r.raised THEN range_error ELSE "no", value |-> r.value]

\* the position of the last c in s, 0 when there is none
RECURSIVE LastIndexOf(_, _)
LastIndexOf(s, c) ==
    IF s = <<>> THEN 0
    ELSE IF s[Len(s)] = c THEN Len(s)
    ELSE LastIndexOf(SubSeq(s, 1, Len(s) - 1), c)

upper(s) ==
    [i \in 1 .. Len(s) |->
        IF IsLower(s[i]) THEN UpperAlphabet[LowerIndex(s[i])] ELSE s[i]]

\* '-'.join(file_name.split('-')[:-1]).upper(), or file_name.upper()
executable_name(file_name) ==
    IF LastIndexOf(file_name, "-") > 0
    THEN upper(SubSeq(file_name, 1, LastIndexOf(file_name, "-") - 1))
    ELSE upper(file_name)

\* the loop over the *.pf files: an OSError of stat() or fromtimestamp
\* skips the file, a ValueError of fromtimestamp leaves the loop and the
\* parser
RECURSIVE prefetch_files(_, _, _, _)
prefetch_files(files, index, triage_window, findings) ==
    IF index > Len(files) THEN [raised |-> FALSE, findings |-> findings]
    ELSE LET pf_file == files[index]
             mod_time == fromtimestamp(pf_file.st_mtime, pf_file.range_error)
         IN  IF pf_file.stat # "ok" \/ mod_time.raised = "OSError"
             THEN prefetch_files(files, index + 1, triage_window, findings)
             ELSE IF mod_time.raised # "no"
             THEN [raised |-> TRUE, findings |-> findings]
             ELSE prefetch_files(files, index + 1, triage_window,
                      IF is_within_window(triage_window, mod_time.value)
                      THEN Append(findings,
                               Finding(mod_time.value, "Execution", "Prefetch",
                                       executable_name(pf_file.stem),
                                       <<"File: ", "C:\\Windows\\Prefetch\\">>
                                           \o pf_file.stem \o <<".pf">>))
                      ELSE findings)

parse_prefetch(triage_window, dir) ==
    IF dir.exists = "oserror" THEN Raises
    ELSE IF dir.exists # "yes" THEN Returns(<<>>)
    ELSE IF dir.listing = "oserror" THEN Raises
    ELSE IF dir.listing # "ok" THEN Returns(<<>>)
    ELSE LET r == prefetch_files(dir.files, 1, triage_window, <<>>)
         IN  IF r.raised THEN Raises ELSE Returns(r.findings)

(***************************************************************************)
(* collectors/files.py: parse_recent_files, extract_lnk_target             *)
(*                                                                         *)
(* A shortcut's content is the sequence of its bytes as latin-1            *)
(* characters, "NUL" standing for the zero byte and "L" for 0x4C.          *)
(***************************************************************************)
NUL == "NUL"

\* the last index of the run of characters outside stops that begins at
\* i (i - 1 when the run is empty)
SpanEnd(s, i, stops) ==
    CHOOSE j \in (i - 1) .. Len(s) :
        /\ \A k \in i .. j : s[k] \notin stops
        /\ j = Len(s) \/ s[j + 1] \in stops

\* where a match of [A-Z]:\\[^\x00]+ that begins at i ends, 0 for no match
drive_match_end(s, i) ==
    IF /\ i + 3 <= Len(s)
       /\ IsUpper(s[i]) /\ s[i + 1] = ":" /\ s[i + 2] = "\\" /\ s[i + 3] # NUL
    THEN SpanEnd(s, i + 3, {NUL})
    ELSE 0

\* where a match of \\\\[^\\]+\\[^\x00]+ that begins at i ends, 0 for no match
unc_match_end(s, i) ==
    IF i + 4 <= Len(s) /\ s[i] = "\\" /\ s[i + 1] = "\\"
    THEN LET j == SpanEnd(s, i + 2, {"\\"})
         IN  IF j >= i + 2 /\ j + 2 <= Len(s) /\ s[j + 2] # NUL
             THEN SpanEnd(s, j + 2, {NUL})
             ELSE 0
    ELSE 0

\* re.findall: the non-overlapping matches from left to right
RECURSIVE drive_matches(_, _)
drive_matches(s, i) ==
    IF i > Len(s) THEN <<>>
    ELSE IF drive_match_end(s, i) > 0
    THEN <<SubSeq(s, i, drive_match_end(s, i))>>
             \o drive_matches(s, drive_match_end(s, i) + 1)
    ELSE drive_matches(s, i + 1)

RECURSIVE unc_matches(_, _)
unc_matches(s, i) ==
    IF i > Len(s) THEN <<>>
    ELSE IF unc_match_end(s, i) > 0
    THEN <<SubSeq(s, i, unc_match_end(s, i))>>
             \o unc_matches(s, unc_match_end(s, i) + 1)
    ELSE unc_matches(s, i + 1)

\* match.split('\x00')[0]
cleaned_path(match) == SubSeq(match, 1, SpanEnd(match, 1, {NUL}))

InvalidLnk == <<"Invalid .lnk file">>
UnableToParse == <<"Unable to parse target path">>
ErrorParsing == <<"Error parsing .lnk file">>

extract_lnk_target(lnk) ==
    IF ~lnk.readable THEN ErrorParsing
    ELSE IF Len(lnk.content) < 4 \/ lnk.content[1] # "L" THEN InvalidLnk
    ELSE LET matches == drive_matches(lnk.content, 1) \o unc_matches(lnk.content, 1)
             long == SelectSeq(matches, LAMBDA m : Len(cleaned_path(m)) > 3)
         IN  IF long # <<>> THEN cleaned_path(long[1]) ELSE UnableToParse

\* max(mod_time, create_time)
max_datetime(a, b) == IF BigLess(UtcInstant(a), UtcInstant(b)) THEN b ELSE a

\* the loop over the *.lnk files with the handler around the loop only: a
\* file that cannot be stat'ed ends it
RECURSIVE recent_lnk_files_unguarded(_, _, _, _)
recent_lnk_files_unguarded(files, index, triage_window, findings) ==
    IF index > Len(files) THEN findings
    ELSE LET lnk_file == files[index]
             mod_time == fromtimestamp(lnk_file.st_mtime, lnk_file.range_error)
             create_time == fromtimestamp(lnk_file.st_ctime, lnk_file.range_error)
             last_accessed == max_datetime(mod_time.value, create_time.value)
         IN  IF \/ lnk_file.stat # "ok"
                \/ mod_time.raised # "no" \/ create_time.raised # "no"
             THEN findings
             ELSE recent_lnk_files_unguarded(files, index + 1, triage_window,
                      IF is_within_window(triage_window, last_accessed)
                      THEN Append(findings,
                               Finding(last_accessed, "File Access", "Recent Folder",
                                       lnk_file.name,
                                       <<"Target: ">> \o extract_lnk_target(lnk_file)))
                      ELSE findings)

\* the loop over the *.lnk files: an OSError skips the file, any other
\* exception ends the loop
RECURSIVE recent_lnk_files(_, _, _, _)
recent_lnk_files(files, index, triage_window, findings) ==
    IF index > Len(files) THEN findings
    ELSE LET lnk_file == files[index]
             mod_time == fromtimestamp(lnk_file.st_mtime, lnk_file.range_error)
             create_time == fromtimestamp(lnk_file.st_ctime, lnk_file.range_error)
             last_accessed == max_datetime(mod_time.value, create_time.value)
         IN  IF \/ lnk_file.stat # "ok"
                \/ mod_time.raised = "OSError"
                \/ mod_time.raised = "no" /\ create_time.raised = "OSError"
             THEN recent_lnk_files(files, index + 1, triage_window, findings)
             ELSE IF mod_time.raised # "no" \/ create_time.raised # "no"
             THEN findings
             ELSE recent_lnk_files(files, index + 1, triage_window,
                      IF is_within_window(triage_window, last_accessed)
                      THEN Append(findings,
                               Finding(last_accessed, "File Access", "Recent Folder",
                                       lnk_file.name,
                                       <<"Target: ">> \o extract_lnk_target(lnk_file)))
                      ELSE findings)

parse_recent_files(triage_window, env) ==
    IF ~env.appdata \/ env.exists # "yes" \/ env.listing # "ok" THEN Returns(<<>>)
    ELSE Returns(recent_lnk_files(env.files, 1, triage_window, <<>>))

(***************************************************************************)
(* collectors/hardware.py: parse_usb_devices, get_device_install_time      *)
(***************************************************************************)
get_device_install_time(property) ==
    IF property.open # "ok" \/ property.query # "ok" THEN None
    ELSE IF property.is_bytes /\ property.len >= 8
    THEN filetime_to_datetime(SomeInt(property.filetime))
    ELSE None

\* friendly_name with the two values asked for in the other order
device_desc_first(instance) ==
    IF instance.DeviceDesc.query = "ok"
    THEN [raised |-> FALSE, value |-> instance.DeviceDesc.value]
    ELSE IF instance.DeviceDesc.query # "notfound"
    THEN [raised |-> TRUE, value |-> <<>>]
    ELSE IF instance.FriendlyName.query = "ok"
    THEN [raised |-> FALSE, value |-> instance.FriendlyName.value]
    ELSE IF instance.FriendlyName.query # "notfound"
    THEN [raised |-> TRUE, value |-> <<>>]
    ELSE [raised |-> FALSE, value |-> <<"Unknown Device">>]

\* FriendlyName, else DeviceDesc, else "Unknown Device"; an OSError other
\* than FileNotFoundError is raised to the instance loop
friendly_name(instance) ==
    IF instance.FriendlyName.query = "ok"
    THEN [raised |-> FALSE, value |-> instance.FriendlyName.value]
    ELSE IF instance.FriendlyName.query # "notfound"
    THEN [raised |-> TRUE, value |-> <<>>]
    ELSE IF instance.DeviceDesc.query = "ok"
    THEN [raised |-> FALSE, value |-> instance.DeviceDesc.value]
    ELSE IF instance.DeviceDesc.query # "notfound"
    THEN [raised |-> TRUE, value |-> <<>>]
    ELSE [raised |-> FALSE, value |-> <<"Unknown Device">>]

\* what an instance adds to the findings
usb_instance(instance, install_time, triage_window) ==
    IF ~install_time.none /\ is_within_window(triage_window, install_time)
    THEN <<Finding(install_time, "Hardware", "USB Device",
                   friendly_name(instance).value, <<"Instance: ">> \o instance.id)>>
    ELSE <<>>

\* the loop over the instances of one device: an OSError ends it
RECURSIVE usb_instances(_, _, _, _)
usb_instances(instances, instance_index, triage_window, findings) ==
    IF instance_index > Len(instances) THEN findings
    ELSE IF \/ instances[instance_index].open # "ok"
            \/ friendly_name(instances[instance_index]).raised
    THEN findings
    ELSE usb_instances(instances, instance_index + 1, triage_window,
             findings \o usb_instance(instances[instance_index],
                             get_device_install_time(
                                 instances[instance_index].property),
                             triage_window))

\* the loop over the devices: a device key that cannot be opened ends it
RECURSIVE usb_devices(_, _, _, _)
usb_devices(devices, device_index, triage_window, findings) ==
    IF device_index > Len(devices) THEN findings
    ELSE IF devices[device_index].open # "ok" THEN findings
    ELSE usb_devices(devices, device_index + 1, triage_window,
             usb_instances(devices[device_index].instances, 1, triage_window,
                           findings))

parse_usb_devices(triage_window, usbstor) ==
    IF usbstor.open # "ok" THEN Returns(<<>>)
    ELSE Returns(usb_devices(usbstor.devices, 1, triage_window, <<>>))

\* the handle get_device_install_time holds without having passed it to
\* CloseKey when it returns: CloseKey(prop_key) follows QueryValueEx, whose
\* OSError goes past it
install_time_unclosed(property) ==
    IF property.open = "ok" /\ property.query # "ok"
    THEN {<<"get_device_install_time", "prop_key">>}
    ELSE {}

\* the handles left by the loop over the instances: CloseKey(instance_key)
\* ends the loop body, and the OSError of a name that cannot be read goes
\* past it to the break
RECURSIVE usb_instances_unclosed(_, _)
usb_instances_unclosed(instances, instance_index) ==
    IF instance_index > Len(instances) THEN {}
    ELSE IF instances[instance_index].open # "ok" THEN {}
    ELSE IF friendly_name(instances[instance_index]).raised
    THEN {<<"parse_usb_devices", "instance_key">>}
    ELSE install_time_unclosed(instances[instance_index].property)
         \cup usb_instances_unclosed(instances, instance_index + 1)

\* the handles left by the loop over the devices: device_key is closed
\* after its instance loop, however that ended
RECURSIVE usb_devices_unclosed(_, _)
usb_devices_unclosed(devices, device_index) ==
    IF device_index > Len(devices) THEN {}
    ELSE IF devices[device_index].open # "ok" THEN {}
    ELSE usb_instances_unclosed(devices[device_index].instances, 1)
         \cup usb_devices_unclosed(devices, device_index + 1)

\* the handles parse_usb_devices and the get_device_install_time calls it
\* makes hold unclosed when it returns
usb_unclosed(usbstor) ==
    IF usbstor.open # "ok" THEN {} ELSE usb_devices_unclosed(usbstor.devices, 1)

(***************************************************************************)
(* collectors/commands.py: parse_powershell_history                        *)
(*                                                                         *)
(* `lines` is what readlines() returns for the history file.               *)
(***************************************************************************)
Whitespace == {" ", "\t", "\n", "\r"}

\* cmd.strip(): the text without leading and trailing whitespace
RECURSIVE lstrip(_, _)
lstrip(s, chars) ==
    IF s # <<>> /\ s[1] \in chars THEN lstrip(Tail(s), chars) ELSE s
strip(s) == lstrip(rstrip(s, Whitespace), Whitespace)

\* sep.join(items)
RECURSIVE join(_, _)
join(sep, items) ==
    IF items = <<>> THEN <<>>
    ELSE IF Len(items) = 1 THEN items[1]
    ELSE items[1] \o sep \o join(sep, Tail(items))

\* commands[:n]: the first n instead of the last
FirstN(items, n) ==
    IF Len(items) <= n THEN items ELSE SubSeq(items, 1, n)

\* commands[-n:]
LastN(items, n) ==
    IF Len(items) <= n THEN items ELSE SubSeq(items, Len(items) - n + 1, Len(items))

history_commands(lines) ==
    LET kept == SelectSeq(lines, LAMBDA cmd : strip(cmd) # <<>>)
    IN  [i \in 1 .. Len(kept) |-> rstrip(kept[i], {"\n", "\r"})]

parse_powershell_history(triage_window, env) ==
    LET mod_time == fromtimestamp(env.st_mtime, env.range_error)
        commands == history_commands(env.lines)
    IN  IF ~env.appdata \/ env.exists # "yes" \/ env.stat # "ok" THEN Returns(<<>>)
        ELSE IF mod_time.raised # "no" THEN Returns(<<>>)
        ELSE IF ~is_within_window(triage_window, mod_time.value) THEN Returns(<<>>)
        ELSE IF ~env.readable \/ commands = <<>> THEN Returns(<<>>)
        ELSE Returns(<<Finding(mod_time.value, "Command Line", "PowerShell",
                               <<"History file modified (", ToString(Len(commands)),
                                 " commands)">>,
                               <<"Last 5 commands: ">>
                                   \o join(<<";", " ">>, LastN(commands, 5)))>>)

(***************************************************************************)
(* collectors/registry.py: parse_typed_paths                               *)
(***************************************************************************)
RECURSIVE typed_paths_values(_, _, _, _)
typed_paths_values(values, index, key_modified, findings) ==
    IF index > Len(values) THEN findings
    ELSE LET val == values[index]
         IN  typed_paths_values(values, index + 1, key_modified,
                 IF val.data # <<>>
                 THEN Append(findings,
                             Finding(key_modified, "Registry", "TypedPaths",
                                     val.data, <<"Entry: ">> \o val.name))
                 ELSE findings)

\* the values are read when the key was modified inside the window
typed_paths_key(triage_window, key, key_modified) ==
    IF ~key_modified.none /\ is_within_window(triage_window, key_modified)
    THEN Returns(typed_paths_values(key.values, 1, key_modified, <<>>))
    ELSE Returns(<<>>)

parse_typed_paths(triage_window, key) ==
    IF key.open # "ok" THEN Returns(<<>>)
    ELSE typed_paths_key(triage_window, key, filetime_to_datetime(key.last_modified))

\* the handles parse_typed_paths holds unclosed when it returns: nothing
\* between OpenKey and CloseKey(key) raises past the loop's own handler
typed_paths_unclosed(triage_window, key) == {}

(***************************************************************************)
(* collectors/files.py: parse_recentdocs                                   *)
(*                                                                         *)
(* The data of a REG_BINARY value is its sequence of bytes.                *)
(***************************************************************************)
MRUListEx == <<"MRUListEx">>

\* the character of a UTF-16 code unit
chr(n) ==
    IF n = 0 THEN NUL
    ELSE IF n \in 97 .. 122 THEN Alphabet[n - 96]
    ELSE IF n \in 65 .. 90 THEN UpperAlphabet[n - 64]
    ELSE ToString(n)

\* data.decode('utf-16-le', errors='ignore'): a byte left over is ignored
decode_utf_16_le(data) ==
    [i \in 1 .. (Len(data) \div 2) |-> chr(data[2 * i - 1] + 256 * data[2 * i])]

recentdocs_filename(val_data) == rstrip(decode_utf_16_le(val_data), {NUL})

recentdocs_values(values, extension, key_modified) ==
    LET named == SelectSeq(values, LAMBDA val :
                     /\ val.name # MRUListEx
                     /\ val.type = "REG_BINARY"
                     /\ recentdocs_filename(val.data) # <<>>)
    IN  [i \in 1 .. Len(named) |->
            Finding(key_modified, "File Access", "RecentDocs",
                    recentdocs_filename(named[i].data),
                    <<"Extension: .">> \o extension)]

\* the loop over the extension subkeys: one that cannot be opened ends it
RECURSIVE recentdocs_extensions(_, _, _, _)
recentdocs_extensions(extensions, index, key_modified, findings) ==
    IF index > Len(extensions) THEN findings
    ELSE IF extensions[index].open # "ok" THEN findings
    ELSE recentdocs_extensions(extensions, index + 1, key_modified,
             findings \o recentdocs_values(extensions[index].values,
                                           extensions[index].name, key_modified))

\* the subkeys are read when the key was modified inside the window
recentdocs_key(triage_window, key, key_modified) ==
    IF ~key_modified.none /\ is_within_window(triage_window, key_modified)
    THEN Returns(recentdocs_extensions(key.extensions, 1, key_modified, <<>>))
    ELSE Returns(<<>>)

parse_recentdocs(triage_window, key) ==
    IF key.open # "ok" THEN Returns(<<>>)
    ELSE recentdocs_key(triage_window, key, filetime_to_datetime(key.last_modified))

\* the handles parse_recentdocs holds unclosed when it returns:
\* CloseKey(ext_key) follows a loop that raises nothing but the OSError it
\* handles, and CloseKey(key) follows a try that swallows everything
recentdocs_unclosed(triage_window, key) == {}

(***************************************************************************)
(* collectors/network.py: parse_browser_history, parse_downloads           *)
(*                                                                         *)
(* A browser database is described by how the steps on it end (exists:     *)
(* "yes", "no", "oserror"; copy and query: "ok", "fails") and by the rows  *)
(* the query returns, in the order SQLite returns them.  Reading a         *)
(* database yields the findings so far, whether the read raised, and       *)
(* whether the temporary copy is left behind: os.unlink fails on a file    *)
(* that an open connection still holds, and that failure is swallowed.     *)
(***************************************************************************)
\* chrome_epoch + timedelta(microseconds=t): a TypeError for NULL, an
\* OverflowError past the last datetime
chrome_time(t) ==
    IF t.none THEN [raised |-> TRUE, value |-> None]
    ELSE DatetimeAdd(FILETIME_EPOCH, t.n)

MICROSECONDS_PER_SECOND == 1000000

\* n / 1000000 between Python integers is the double nearest to the
\* quotient, written m / 2^s: n is doubled until the integer quotient has
\* 53 bits, which is then rounded
RECURSIVE DivScaleUs(_, _)
DivScaleUs(n, s) ==
    LET d == MICROSECONDS_PER_SECOND \div 10000
    IN  IF BigLess(BigQuot(BigMulSmall(n, 65536), d), Two52)
        THEN DivScaleUs(BigMulSmall(n, 65536), s + 16)
        ELSE IF BigLess(BigQuot(BigMulSmall(n, 16), d), Two52)
        THEN DivScaleUs(BigMulSmall(n, 16), s + 4)
        ELSE IF BigLess(BigQuot(n, d), Two52)
        THEN DivScaleUs(BigMulSmall(n, 2), s + 1)
        ELSE [n |-> n, s |-> s]

\* 2 * r compared with the divisor
HalfCmpUs(r) ==
    IF 2 * r > MICROSECONDS_PER_SECOND THEN 1
    ELSE IF 2 * r = MICROSECONDS_PER_SECOND THEN 0 ELSE -1

RoundedQuotientUs(sc) ==
    [m |-> RoundHalfEven(BigQuot(sc.n, MICROSECONDS_PER_SECOND \div 10000),
                         HalfCmpUs(BigRem(sc.n, MICROSECONDS_PER_SECOND \div 10000))),
     s |-> sc.s]

TrueDivideUs(n) == RoundedQuotientUs(DivScaleUs(n, 0))

\* the microseconds datetime.fromtimestamp reads from a double f >= 0:
\* modf splits it, the fraction is multiplied by 1e6 in double arithmetic
\* and rounded half to even
TimestampMicroseconds(f) ==
    SplitMicroseconds(BigShr(f.m, f.s), BigLowBits(f.m, f.s), f.s)

\* datetime.fromtimestamp(visit_date / 1000000, tz=timezone.utc): a
\* TypeError for NULL, an exception past the last datetime
firefox_time(t) ==
    IF t.none THEN [raised |-> TRUE, value |-> None]
    ELSE IF t.n = <<>> THEN DatetimeAdd(Epoch1970, <<>>)
    ELSE DatetimeAdd(Epoch1970, TimestampMicroseconds(TrueDivideUs(t.n)))

TITLE_LENGTH == 100

\* title[:100] if title else 'No Title'
history_title(title) ==
    IF title = <<>> THEN <<"No Title">>
    ELSE SubSeq(title, 1, IF Len(title) < TITLE_LENGTH THEN Len(title) ELSE TITLE_LENGTH)

\* f'{browser_name} Browser'
browser_source(browser_name) ==
    IF browser_name = "Chrome" THEN "Chrome Browser"
    ELSE IF browser_name = "Edge" THEN "Edge Browser"
    ELSE "Firefox Browser"

history_time(row, browser_name) ==
    IF browser_name = "Firefox" THEN firefox_time(row.visit_time)
    ELSE chrome_time(row.visit_time)

\* whether the loop over the rows of a history database raises at or after
\* row index
RECURSIVE history_rows_raise(_, _, _)
history_rows_raise(rows, index, browser_name) ==
    /\ index <= Len(rows)
    /\ \/ history_time(rows[index], browser_name).raised
       \/ history_rows_raise(rows, index + 1, browser_name)

\* what a row adds to the findings
history_row(row, visit_dt, browser_name, triage_window) ==
    IF is_within_window(triage_window, visit_dt)
    THEN <<Finding(visit_dt, "Web Activity", browser_source(browser_name),
                   history_title(row.title), <<"URL: ">> \o row.url)>>
    ELSE <<>>

\* the findings the loop over the rows of a history database appends from
\* row index on, up to the row that raises
RECURSIVE history_rows(_, _, _, _)
history_rows(rows, index, browser_name, triage_window) ==
    IF index > Len(rows) \/ history_time(rows[index], browser_name).raised THEN <<>>
    ELSE history_row(rows[index], history_time(rows[index], browser_name).value,
                     browser_name, triage_window)
         \o history_rows(rows, index + 1, browser_name, triage_window)

\* Path(target_path).name
path_name(target_path) ==
    LET trimmed == rstrip(target_path, {"\\", "/"})
        k == IF LastIndexOf(trimmed, "\\") > LastIndexOf(trimmed, "/")
             THEN LastIndexOf(trimmed, "\\") ELSE LastIndexOf(trimmed, "/")
    IN  IF k > 0 THEN SubSeq(trimmed, k + 1, Len(trimmed))
        ELSE IF Len(trimmed) >= 2 /\ trimmed[2] = ":"
        THEN SubSeq(trimmed, 3, Len(trimmed))
        ELSE trimmed

\* whether reading a row of the downloads table raises: Path(None) is a
\* TypeError, met only for a row inside the window
download_raises(row, download_dt, triage_window) ==
    \/ download_dt.raised
    \/ is_within_window(triage_window, download_dt.value) /\ row.target_path.none

download_row_raises(row, triage_window) ==
    download_raises(row, chrome_time(row.start_time), triage_window)

RECURSIVE download_rows_raise(_, _, _)
download_rows_raise(rows, index, triage_window) ==
    /\ index <= Len(rows)
    /\ \/ download_row_raises(rows[index], triage_window)
       \/ download_rows_raise(rows, index + 1, triage_window)

\* what a row adds to the findings
download_row(row, download_dt, browser_name, triage_window) ==
    IF is_within_window(triage_window, download_dt)
    THEN <<Finding(download_dt, "Download", browser_source(browser_name),
                   path_name(row.target_path.text),
                   <<"Size: ", ToString(row.total_bytes), " bytes, Source: ">>
                       \o row.tab_url)>>
    ELSE <<>>

\* the findings the loop over the rows of the downloads table appends from
\* row index on, up to the row that raises
RECURSIVE download_rows(_, _, _, _)
download_rows(rows, index, browser_name, triage_window) ==
    IF index > Len(rows) \/ download_row_raises(rows[index], triage_window) THEN <<>>
    ELSE download_row(rows[index], chrome_time(rows[index].start_time).value,
                      browser_name, triage_window)
         \o download_rows(rows, index + 1, browser_name, triage_window)

\* one database: the check that it exists, the temporary copy, the query,
\* the rows, conn.close() and, in the finally clause, os.unlink.
\* database_read: the rows are reached
database_read(db) == db.exists = "yes" /\ db.copy = "ok" /\ db.query = "ok"

\* the reading ends in an exception
database_raises(db, table, browser_name, triage_window) ==
    /\ db.exists # "no"
    /\ \/ ~database_read(db)
       \/ IF table = "downloads" THEN download_rows_raise(db.rows, 1, triage_window)
          ELSE history_rows_raise(db.rows, 1, browser_name)

\* the findings appended
database_findings(db, table, browser_name, triage_window) ==
    IF ~database_read(db) THEN <<>>
    ELSE IF table = "downloads"
    THEN download_rows(db.rows, 1, browser_name, triage_window)
    ELSE history_rows(db.rows, 1, browser_name, triage_window)

\* the temporary copy is left behind: the exception came with the
\* connection open
database_left(db, table, browser_name, triage_window) ==
    /\ db.exists = "yes" /\ db.copy = "ok"
    /\ database_raises(db, table, browser_name, triage_window)

\* the temporary copy of a browser's database, if it was left behind
Leftover(table, browser_name, left) ==
    IF left THEN {<<table, browser_name>>} ELSE {}

\* the Firefox profiles: the first one with a places.sqlite is the one read
firefox_profile(profiles) ==
    LET with_places == SelectSeq(profiles.dirs, LAMBDA d : d.places.exists # "no")
    IN  IF profiles.exists # "yes" \/ with_places = <<>>
        THEN [exists |-> "no", copy |-> "ok", query |-> "ok", rows |-> <<>>]
        ELSE with_places[1].places

\* parse_browser_history with one handler around the three browsers: the
\* first failure ends the parse
parse_browser_history_stopping(triage_window, env) ==
    IF ~env.localappdata \/ ~env.appdata THEN Returns(<<>>)
    ELSE [raised |-> FALSE,
          findings |->
              database_findings(env.Chrome, "history", "Chrome", triage_window)
              \o (IF database_raises(env.Chrome, "history", "Chrome", triage_window)
                  THEN <<>>
                  ELSE database_findings(env.Edge, "history", "Edge", triage_window)
                       \o (IF database_raises(env.Edge, "history", "Edge",
                                              triage_window)
                           THEN <<>>
                           ELSE database_findings(firefox_profile(env.profiles),
                                                  "history", "Firefox",
                                                  triage_window))),
          tmp |->
              Leftover("history", "Chrome",
                       database_left(env.Chrome, "history", "Chrome", triage_window))]

parse_browser_history(triage_window, env) ==
    IF ~env.localappdata \/ ~env.appdata THEN Returns(<<>>)
    ELSE [raised |-> FALSE,
          findings |->
              database_findings(env.Chrome, "history", "Chrome", triage_window)
              \o database_findings(env.Edge, "history", "Edge", triage_window)
              \o database_findings(firefox_profile(env.profiles), "history",
                                   "Firefox", triage_window),
          tmp |->
              Leftover("history", "Chrome",
                       database_left(env.Chrome, "history", "Chrome", triage_window))
              \cup Leftover("history", "Edge",
                       database_left(env.Edge, "history", "Edge", triage_window))
              \cup Leftover("history", "Firefox",
                       database_left(firefox_profile(env.profiles), "history",
                                     "Firefox", triage_window))]

parse_downloads(triage_window, env) ==
    IF ~env.localappdata THEN Returns(<<>>)
    ELSE [raised |-> FALSE,
          findings |->
              database_findings(env.Chrome, "downloads", "Chrome", triage_window)
              \o database_findings(env.Edge, "downloads", "Edge", triage_window),
          tmp |->
              Leftover("downloads", "Chrome",
                       database_left(env.Chrome, "downloads", "Chrome", triage_window))
              \cup Leftover("downloads", "Edge",
                       database_left(env.Edge, "downloads", "Edge", triage_window))]

(***************************************************************************)
(* tracefinder.py: collect_all_artifacts                                   *)
(***************************************************************************)
\* the collectors in the order of the list
collectors ==
    <<"UserAssist", "Prefetch", "Recent Files", "USB Devices",
      "PowerShell History", "Browser History", "Downloads", "RecentDocs",
      "TypedPaths", "RunMRU">>

\* collector_func(triage_window), on the part of the machine it reads
collector_func(collector_name, triage_window, env) ==
    CASE collector_name = "UserAssist" -> parse_userassist(triage_window, env)
      [] collector_name = "Prefetch" -> parse_prefetch(triage_window, env)
      [] collector_name = "Recent Files" -> parse_recent_files(triage_window, env)
      [] collector_name = "USB Devices" -> parse_usb_devices(triage_window, env)
      [] collector_name = "PowerShell History" ->
             parse_powershell_history(triage_window, env)
      [] collector_name = "Browser History" ->
             parse_browser_history(triage_window, env)
      [] collector_name = "Downloads" -> parse_downloads(triage_window, env)
      [] collector_name = "RecentDocs" -> parse_recentdocs(triage_window, env)
      [] collector_name = "TypedPaths" -> parse_typed_paths(triage_window, env)
      [] collector_name = "RunMRU" -> parse_runmru(triage_window, env)

\* the registry handles the collector holds unclosed when it returns
collector_unclosed(collector_name, triage_window, env) ==
    CASE collector_name = "UserAssist" -> userassist_unclosed(env, 1, triage_window)
      [] collector_name = "USB Devices" -> usb_unclosed(env)
      [] collector_name = "RecentDocs" -> recentdocs_unclosed(triage_window, env)
      [] collector_name = "TypedPaths" -> typed_paths_unclosed(triage_window, env)
      [] collector_name = "RunMRU" -> runmru_unclosed(triage_window, env)
      [] OTHER -> {}

\* one pass of the loop body with a handler that gives up what was
\* collected before the fault
extend_or_reset(findings, results) ==
    IF results.raised THEN <<>> ELSE findings \o results.findings

\* the list s without the repetitions of its elements
RECURSIVE FirstOccurrences(_)
FirstOccurrences(s) ==
    IF s = <<>> THEN <<>>
    ELSE IF \E i \in 1 .. Len(s) - 1 : s[i] = s[Len(s)]
    THEN FirstOccurrences(SubSeq(s, 1, Len(s) - 1))
    ELSE Append(FirstOccurrences(SubSeq(s, 1, Len(s) - 1)), s[Len(s)])

\* one pass of the loop body that keeps one of each group of equal Findings
extend_without_duplicates(findings, results) ==
    IF results.raised THEN findings
    ELSE FirstOccurrences(findings \o results.findings)

\* one pass of the loop body: the results extend all_findings, an
\* exception is reported and leaves all_findings as it was
extend_or_report(findings, results) ==
    IF results.raised THEN findings ELSE findings \o results.findings

(***************************************************************************)
(* tracefinder.py: sort_findings_by_timestamp                              *)
(***************************************************************************)
RECURSIVE Reverse(_)
Reverse(s) == IF s = <<>> THEN <<>> ELSE Reverse(Tail(s)) \o <<Head(s)>>

\* x inserted into the ascending list s behind every element that is not
\* greater than it: the step of a stable sort
RECURSIVE InsertStable(_, _)
InsertStable(s, x) ==
    IF s = <<>> THEN <<x>>
    ELSE IF DatetimeLeq(Head(s).timestamp_dt, x.timestamp_dt)
    THEN <<Head(s)>> \o InsertStable(Tail(s), x)
    ELSE <<x>> \o s

RECURSIVE StableSort(_)
StableSort(s) ==
    IF s = <<>> THEN <<>>
    ELSE InsertStable(StableSort(SubSeq(s, 1, Len(s) - 1)), s[Len(s)])

\* aware and naive datetimes do not compare: TypeError
Comparable(findings) ==
    \A i, j \in 1 .. Len(findings) :
        findings[i].timestamp_dt.aware = findings[j].timestamp_dt.aware

\* an ascending sort whose result is reversed: sorted(...)[::-1]
sort_then_reverse(findings) ==
    IF Comparable(findings) THEN Reverse(StableSort(findings)) ELSE findings

\* sorted(findings, key=timestamp_dt, reverse=True): the list is reversed,
\* sorted stably in ascending order and reversed again; when the sort
\* raises, the input is returned as it is
sort_findings_by_timestamp(findings) ==
    IF Comparable(findings) THEN Reverse(StableSort(Reverse(findings)))
    ELSE findings

(***************************************************************************)
(* reporters/console.py: print_statistics                                  *)
(*                                                                         *)
(* A dict is the list of its items in insertion order.                     *)
(***************************************************************************)
\* counts[key] = counts.get(key, 0) + 1
RECURSIVE count_up(_, _)
count_up(counts, key) ==
    IF counts = <<>> THEN <<[key |-> key, count |-> 1]>>
    ELSE IF Head(counts).key = key
    THEN <<[key |-> key, count |-> Head(counts).count + 1]>> \o Tail(counts)
    ELSE <<Head(counts)>> \o count_up(Tail(counts), key)

\* the loop over the findings, for type_counts and for source_counts
RECURSIVE type_counts(_)
type_counts(findings) ==
    IF findings = <<>> THEN <<>>
    ELSE count_up(type_counts(SubSeq(findings, 1, Len(findings) - 1)),
                  findings[Len(findings)].artifact_type)

RECURSIVE source_counts(_)
source_counts(findings) ==
    IF findings = <<>> THEN <<>>
    ELSE count_up(source_counts(SubSeq(findings, 1, Len(findings) - 1)),
                  findings[Len(findings)].source)

\* x inserted into the list s, ascending by count, behind every item whose
\* count is not greater
RECURSIVE InsertByCount(_, _)
InsertByCount(s, x) ==
    IF s = <<>> THEN <<x>>
    ELSE IF Head(s).count <= x.count THEN <<Head(s)>> \o InsertByCount(Tail(s), x)
    ELSE <<x>> \o s

RECURSIVE SortByCount(_)
SortByCount(s) ==
    IF s = <<>> THEN <<>>
    ELSE InsertByCount(SortByCount(SubSeq(s, 1, Len(s) - 1)), s[Len(s)])

\* an ascending sort whose result is reversed: sorted(...)[::-1]
sorted_items_then_reversed(items) == Reverse(SortByCount(items))

\* sorted(counts.items(), key=lambda x: x[1], reverse=True)
sorted_items(items) == Reverse(SortByCount(Reverse(items)))

\* nothing is printed for an empty list
NoStatistics == [types |-> <<>>, sources |-> <<>>]

\* the two lists of lines print_statistics prints, as (key, count) pairs
print_statistics(findings) ==
    IF findings = <<>> THEN NoStatistics
    ELSE [types |-> sorted_items(type_counts(findings)),
          sources |-> sorted_items(source_counts(findings))]

(***************************************************************************)
(* core/privileges.py and tracefinder.py: main                             *)
(***************************************************************************)
\* what check_admin_privileges does: True, False, or OSError where
\* ctypes has no windll
PrivilegeChecks == {"admin", "user", "unsupported"}

\* str.lower()
lower(s) ==
    [i \in 1 .. Len(s) |->
        IF IsUpper(s[i]) THEN Alphabet[UpperIndex(s[i])] ELSE s[i]]

\* response.lower() == 'n': only a plain no declines
declined_by_no(answer) == lower(answer) = <<"n">>

\* response.lower() != 'y'
declined(answer) == lower(answer) # <<"y">>

DecimalDigits == <<"0", "1", "2", "3", "4", "5", "6", "7", "8", "9">>

\* characters str.isdigit() accepts and int() does not
SuperscriptDigits == {"²"}

IsDecimal(c) == \E d \in 1 .. 10 : DecimalDigits[d] = c

\* str.isdigit(): not empty, and every character is a digit
isdigit(s) ==
    /\ s # <<>>
    /\ \A i \in 1 .. Len(s) : IsDecimal(s[i]) \/ s[i] \in SuperscriptDigits

RECURSIVE DecimalValue(_)
DecimalValue(s) ==
    IF s = <<>> THEN 0
    ELSE 10 * DecimalValue(SubSeq(s, 1, Len(s) - 1))
         + ((CHOOSE d \in 1 .. 10 : DecimalDigits[d] = s[Len(s)]) - 1)

\* int(s) for text that isdigit() accepted: ValueError for a superscript
int(s) ==
    IF \E i \in 1 .. Len(s) : ~IsDecimal(s[i])
    THEN [raised |-> TRUE, value |-> 0]
    ELSE [raised |-> FALSE, value |-> DecimalValue(s)]

DEFAULT_WINDOW == 180

\* window_minutes as main() sets it from sys.argv
window_minutes_of(args) ==
    IF Len(args) >= 1 /\ isdigit(args[1]) THEN int(args[1])
    ELSE [raised |-> FALSE, value |-> DEFAULT_WINDOW]

(***************************************************************************)
(* The run's clock and the inputs of the stand-alone calls                 *)
(***************************************************************************)
\* 2024-01-01T03:00:00Z, the instant datetime.now() returns in main()
Now == Big(<<1, 3348, 5516, 0, 0>>)

\* a microsecond later: the clock has moved on while the collectors run
LaterClock == BigAdd(Now, <<1>>)

\* sys.argv[1] when it is numeric, else the default
WindowMinutes == {0, DEFAULT_WINDOW}

\* sizes a caller may pass to TriageWindow(): those, a negative one, and
\* one that reaches back before year 1
ConstructorMinutes == WindowMinutes \cup {-1, 2000000000}

\* sys.argv[1:]: no argument, a negative number (no digits only, so not
\* numeric), 0, a superscript digit, and a number of minutes that reaches
\* back before year 1
Argv ==
    {<<>>, << <<"-", "5">> >>, << <<"0">> >>, << <<"²">> >>,
     << <<"2", "0", "0", "0", "0", "0", "0", "0", "0", "0">> >>}

\* answers to the prompt "Continue anyway? (y/n): "
Responses == {<<"y">>, <<"Y">>, <<"n">>, <<"y", "e", "s">>, <<>>}

\* input() has not returned an answer that main() still has to act on
NoResponse == <<"">>

\* instants at and around the two edges of a window
EdgeInstants(w) ==
    LET lo == w.cutoff_time.wall
        hi == w.current_time.wall
    IN  {BigSub(lo, <<1>>), lo, BigAdd(lo, <<1>>),
         BigSub(hi, <<1>>), hi, BigAdd(hi, <<1>>)}

\* Firefox visit times, in microseconds since 1970: the epoch itself, the
\* two examples of the specification (1700000000000000 and the instant of
\* the Chrome value 13300000000000000), the edges of the window, and
\* instants from the year 2242 on, where a double of seconds no longer
\* tells microseconds apart
UnixMicroseconds(w) ==
    {<<>>, Big(<<1700, 0, 0, 0>>), BigSub(Big(<<1, 3300, 0, 0, 0>>), Epoch1970),
     Big(<<8589, 9345, 9200, 1>>), Big(<<8589, 9345, 9200, 3>>),
     Big(<<9007, 1992, 5474, 991>>)}
    \cup {BigSub(t, Epoch1970) : t \in EdgeInstants(w)}

HourUs == Million(BigFromInt(3600))

\* what a caller may pass as a timestamp: None, an aware UTC datetime, a
\* naive one, and aware ones an hour east of Greenwich
Timestamps(w) ==
    {None}
    \cup {UtcDatetime(t) : t \in EdgeInstants(w)}
    \cup {NaiveDatetime(t) : t \in EdgeInstants(w)}
    \cup {ZonedDatetime(t, 60) : t \in EdgeInstants(w)}
    \cup {ZonedDatetime(BigAdd(t, HourUs), 60) : t \in EdgeInstants(w)}

\* 64-bit FILETIME values: absent, never set, the first ticks after the
\* epoch, ticks at and around the window's edges (ten ticks make a
\* microsecond), the last representable datetime and the largest values
Filetimes(w) ==
    {NoInt}
    \cup {SomeInt(BigFromInt(n)) : n \in {0, 1, 4, 5, 6, 10, 15, 25}}
    \cup {SomeInt(BigAdd(BigMulSmall(t, 10), BigFromInt(n))) :
             t \in EdgeInstants(w), n \in {0, 4, 5, 6}}
    \cup {SomeInt(BigMulSmall(MaxDatetimeUs, 10)),
          SomeInt(BigMulSmall(BigSub(MaxDatetimeUs, <<1000>>), 10)),
          SomeInt(BigAdd(BigMulSmall(MaxDatetimeUs, 10), <<10>>)),
          SomeInt(BigShl(<<1>>, 63)),
          SomeInt(BigSub(BigShl(<<1>>, 64), <<1>>))}

\* the longest list of values, files, rows or findings tried
MaxItems == 2

SeqsUpTo(S, n) == UNION {[1 .. k -> S] : k \in 0 .. n}

Ticks(t) == BigMulSmall(t, 10)

\* last-modified FILETIMEs of a registry key: never set, just before the
\* window, at its end, and a microsecond after it
KeyTimes(w) ==
    {SomeInt(<<>>),
     SomeInt(Ticks(BigSub(w.cutoff_time.wall, <<2>>))),
     SomeInt(Ticks(w.current_time.wall)),
     SomeInt(BigAdd(Ticks(w.current_time.wall), <<10>>))}

Letters == <<"a", "b", "c", "d">>

\* what the Run dialog stores: the command typed, then the marker \1
Commands == {<<"c">>, <<"c", "1">>, <<"c", "\\">>}
RunData == {cmd \o <<"\\", "1">> : cmd \in Commands} \cup {<<>>}
RunValues ==
    [type : {"REG_SZ"}, data : RunData] \cup {[type |-> "REG_DWORD", data |-> <<"7">>]}

\* values named a, b, ... in the order given, with the MRUList index value
\* (its data the names in order) absent, enumerated first, or last
NamedValues(vals, mru) ==
    LET named == [i \in 1 .. Len(vals) |->
                     [name |-> <<Letters[i]>>, type |-> vals[i].type,
                      data |-> vals[i].data]]
        index == [name |-> MRUList, type |-> "REG_SZ",
                  data |-> [i \in 1 .. Len(vals) |-> Letters[i]]]
    IN  IF mru = "first" THEN <<index>> \o named
        ELSE IF mru = "last" THEN named \o <<index>>
        ELSE named

MissingKeys ==
    {[open |-> o, last_modified |-> NoInt, values |-> <<>>] :
        o \in {"notfound", "denied"}}

RunMRUKeys(w) ==
    MissingKeys
    \cup {[open |-> "ok", last_modified |-> t, values |-> NamedValues(vals, mru)] :
             t \in KeyTimes(w), vals \in SeqsUpTo(RunValues, MaxItems),
             mru \in {"none", "first", "last"}}

TypedValues ==
    [type : {"REG_SZ"}, data : {<<"C:\\Users">>, <<"D:\\">>, <<>>}]

TypedPathsKeys(w) ==
    MissingKeys
    \cup {[open |-> "ok", last_modified |-> t, values |-> NamedValues(vals, "none")] :
             t \in KeyTimes(w), vals \in SeqsUpTo(TypedValues, MaxItems)}

\* last-run FILETIMEs and file times around the window (the latter in
\* microseconds since 1970, the last one beyond year 9999)
RunTimes(w) == {t.n : t \in KeyTimes(w)}
FileTimes(w) ==
    {BigSub(BigSub(w.cutoff_time.wall, <<1>>), Epoch1970),
     BigSub(w.current_time.wall, Epoch1970),
     BigSub(BigAdd(w.current_time.wall, <<1>>), Epoch1970)}
FarFileTime == MaxDatetimeUs

\* UserAssist values: value names are stored ROT13-encoded
UserAssistValues(w) ==
    {[name |-> <<"p", "z", "q", ".", "R", "K", "R">>, type |-> "REG_BINARY",
      len |-> 72, last_run |-> t, run_count |-> 3, focus_time |-> 1500] :
        t \in RunTimes(w)}
    \cup {[name |-> <<"h", "r", "z", "r">>, type |-> "REG_BINARY", len |-> 16,
           last_run |-> Ticks(w.current_time.wall), run_count |-> 1,
           focus_time |-> 0],
          [name |-> <<"i">>, type |-> "REG_DWORD", len |-> 4,
           last_run |-> <<>>, run_count |-> 0, focus_time |-> 0]}

\* the values of one list dealt to the two GUID keys, either of which may
\* be missing or denied
UserAssistKeys(w) ==
    UNION {{<<[open |-> o[1], values |-> SubSeq(vals, 1, k)],
              [open |-> o[2], values |-> SubSeq(vals, k + 1, Len(vals))]>> :
               k \in 0 .. Len(vals),
               o \in {<<"ok", "ok">>, <<"notfound", "ok">>, <<"ok", "denied">>,
                      <<"denied", "notfound">>}} :
           vals \in SeqsUpTo(UserAssistValues(w), MaxItems)}

RangeErrors == {"OSError", "ValueError"}

PrefetchFiles(w) ==
    {[stem |-> n, stat |-> "ok", st_mtime |-> BigSub(w.current_time.wall, Epoch1970),
      range_error |-> "OSError"] :
        n \in {<<"c", "m", "d", "-", "1", "A">>, <<"a", "-", "b", "-", "2">>, <<"x">>}}
    \cup {[stem |-> <<"o", "-", "3">>, stat |-> "ok", st_mtime |-> t,
           range_error |-> "OSError"] : t \in FileTimes(w)}
    \cup {[stem |-> <<"f", "-", "5">>, stat |-> "ok", st_mtime |-> FarFileTime,
           range_error |-> e] : e \in RangeErrors}
    \cup {[stem |-> <<"n", "-", "4">>, stat |-> "oserror", st_mtime |-> <<>>,
           range_error |-> "OSError"]}

PrefetchDirs(w) ==
    {[exists |-> e, listing |-> "ok", files |-> <<>>] : e \in {"no", "denied", "oserror"}}
    \cup {[exists |-> "yes", listing |-> l, files |-> <<>>] : l \in {"denied", "oserror"}}
    \cup {[exists |-> "yes", listing |-> "ok", files |-> f] :
             f \in SeqsUpTo(PrefetchFiles(w), MaxItems)}

FileBefore(w) == BigSub(BigSub(w.cutoff_time.wall, <<1>>), Epoch1970)
FileNow(w) == BigSub(w.current_time.wall, Epoch1970)
FileAfter(w) == BigSub(BigAdd(w.current_time.wall, <<1>>), Epoch1970)

\* shortcut contents: a drive path, a UNC path, a UNC-like run cut short by
\* a zero byte, nothing path-shaped, a wrong first byte, too few bytes
DriveLnk == <<"L", NUL, "C", ":", "\\", "x", NUL, "y">>
UncLnk == <<"L", NUL, "\\", "\\", "s", "\\", "x", NUL>>
CutLnk == <<"L", "\\", "\\", NUL, "s", "\\", "x">>
LnkContents ==
    {DriveLnk, UncLnk, CutLnk, <<"L", "x", NUL, "y">>,
     <<"x", "C", ":", "\\", "x">>, <<"L">>}

LnkFile(name, stat, mtime, ctime, range_error, readable, content) ==
    [name |-> name, stat |-> stat, st_mtime |-> mtime, st_ctime |-> ctime,
     range_error |-> range_error, readable |-> readable, content |-> content]

LnkFiles(w) ==
    {LnkFile(<<"a.lnk">>, "ok", FileNow(w), FileBefore(w), "OSError", TRUE, c) :
        c \in LnkContents}
    \cup {LnkFile(<<"u.lnk">>, "ok", FileBefore(w), FileNow(w), "OSError", FALSE, <<>>),
          LnkFile(<<"b.lnk">>, "ok", FileBefore(w), FileBefore(w), "OSError", TRUE,
                  DriveLnk),
          LnkFile(<<"c.lnk">>, "ok", FileNow(w), FileAfter(w), "OSError", TRUE,
                  DriveLnk),
          LnkFile(<<"s.lnk">>, "oserror", <<>>, <<>>, "OSError", TRUE, DriveLnk)}
    \cup {LnkFile(<<"f.lnk">>, "ok", FileNow(w), FarFileTime, e, TRUE, DriveLnk) :
             e \in RangeErrors}

RecentFolders(w) ==
    {[appdata |-> FALSE, exists |-> "yes", listing |-> "ok", files |-> <<>>]}
    \cup {[appdata |-> TRUE, exists |-> e, listing |-> "ok", files |-> <<>>] :
             e \in {"no", "denied", "oserror"}}
    \cup {[appdata |-> TRUE, exists |-> "yes", listing |-> "oserror", files |-> <<>>]}
    \cup {[appdata |-> TRUE, exists |-> "yes", listing |-> "ok", files |-> f] :
             f \in SeqsUpTo(LnkFiles(w), MaxItems)}

\* device instances under USBSTOR
Queried(value) == [query |-> "ok", value |-> value]
NotQueried(how) == [query |-> how, value |-> <<>>]
InstallProperty(t) ==
    [open |-> "ok", query |-> "ok", is_bytes |-> TRUE, len |-> 8, filetime |-> t]
UsbInstance(id, open, friendly, desc, property) ==
    [id |-> id, open |-> open, FriendlyName |-> friendly, DeviceDesc |-> desc,
     property |-> property]

UsbInstances(w) ==
    {UsbInstance(<<"7&1">>, "ok", Queried(<<"Kingston">>), Queried(<<"Disk drive">>),
                 InstallProperty(t)) : t \in RunTimes(w)}
    \cup {UsbInstance(<<"7&2">>, "ok", NotQueried("notfound"), d,
                      InstallProperty(Ticks(w.current_time.wall))) :
             d \in {Queried(<<"Disk drive">>), NotQueried("notfound"),
                    NotQueried("denied")}}
    \cup {UsbInstance(<<"7&3">>, o[1], NotQueried(o[2]), NotQueried("notfound"),
                      InstallProperty(Ticks(w.current_time.wall))) :
             o \in {<<"denied", "notfound">>, <<"ok", "denied">>}}
    \cup {UsbInstance(<<"7&4">>, "ok", Queried(<<"Kingston">>), NotQueried("notfound"),
                      p) :
             p \in {[InstallProperty(Ticks(w.current_time.wall)) EXCEPT !.open = "notfound"],
                    [InstallProperty(Ticks(w.current_time.wall)) EXCEPT !.query = "notfound"],
                    [InstallProperty(Ticks(w.current_time.wall)) EXCEPT !.len = 4]}}

\* the instances of one list dealt to two devices, and trees in which a
\* device key cannot be opened
UsbDevice(open, instances) == [open |-> open, instances |-> instances]
UsbTrees(w) ==
    LET found == UsbInstance(<<"7&1">>, "ok", Queried(<<"Kingston">>),
                             Queried(<<"Disk drive">>),
                             InstallProperty(Ticks(w.current_time.wall)))
    IN  {[open |-> o, devices |-> <<>>] : o \in {"notfound", "denied"}}
        \cup {[open |-> "ok",
               devices |-> <<UsbDevice(o[1], <<found>>), UsbDevice(o[2], <<found>>)>>] :
                 o \in {<<"denied", "ok">>, <<"ok", "notfound">>}}
        \cup UNION {{[open |-> "ok",
                      devices |-> <<UsbDevice("ok", SubSeq(inst, 1, k)),
                                    UsbDevice("ok", SubSeq(inst, k + 1, Len(inst)))>>] :
                        k \in 0 .. Len(inst)} :
                    inst \in SeqsUpTo(UsbInstances(w), MaxItems)}

\* lines of ConsoleHost_history.txt
HistoryLines == {<<"l", "s", "\n">>, <<" ", "\n">>, <<" ", "c", "d", " ", "\n">>, <<"p">>}
SevenLines == [i \in 1 .. 7 |-> <<ToString(i), "\n">>]

HistoryFile(exists, stat, mtime, range_error, readable, lines) ==
    [appdata |-> TRUE, exists |-> exists, stat |-> stat, st_mtime |-> mtime,
     range_error |-> range_error, readable |-> readable, lines |-> lines]

HistoryFiles(w) ==
    {[HistoryFile("yes", "ok", FileNow(w), "OSError", TRUE, <<>>) EXCEPT !.appdata = FALSE],
     HistoryFile("no", "ok", FileNow(w), "OSError", TRUE, <<>>),
     HistoryFile("oserror", "ok", FileNow(w), "OSError", TRUE, <<>>),
     HistoryFile("yes", "oserror", FileNow(w), "OSError", TRUE, <<>>),
     HistoryFile("yes", "ok", FileNow(w), "OSError", FALSE, <<>>),
     HistoryFile("yes", "ok", FileNow(w), "OSError", TRUE, SevenLines)}
    \cup {HistoryFile("yes", "ok", FarFileTime, e, TRUE, <<<<"l", "s", "\n">>>>) :
             e \in RangeErrors}
    \cup {HistoryFile("yes", "ok", t, "OSError", TRUE, l) :
             t \in FileTimes(w), l \in SeqsUpTo(HistoryLines, MaxItems)}

\* RecentDocs values: a name, an empty name, a name followed by more data,
\* data with a byte left over, the MRUListEx index, a string value
RecentDocsValues ==
    {[name |-> <<"0">>, type |-> "REG_BINARY", data |-> <<97, 0, 98, 0, 0, 0>>],
     [name |-> <<"1">>, type |-> "REG_BINARY", data |-> <<0, 0>>],
     [name |-> <<"2">>, type |-> "REG_BINARY", data |-> <<99, 0, 0, 0, 50, 0>>],
     [name |-> <<"3">>, type |-> "REG_BINARY", data |-> <<100, 0, 0, 0, 7>>],
     [name |-> MRUListEx, type |-> "REG_BINARY", data |-> <<1, 0, 0, 0>>],
     [name |-> <<"4">>, type |-> "REG_SZ", data |-> <<"e">>]}

Extension(name, open, values) == [name |-> name, open |-> open, values |-> values]
RecentDocsKey(t, extensions) ==
    [open |-> "ok", last_modified |-> t, extensions |-> extensions]

\* the values of one list dealt to two extension subkeys
RecentDocsKeys(w) ==
    LET now == SomeInt(Ticks(w.current_time.wall))
        one == <<[name |-> <<"0">>, type |-> "REG_BINARY", data |-> <<97, 0>>]>>
    IN  {[open |-> o, last_modified |-> NoInt, extensions |-> <<>>] :
            o \in {"notfound", "denied"}}
        \cup {RecentDocsKey(t, <<Extension(<<"txt">>, "ok", one)>>) : t \in KeyTimes(w)}
        \cup {RecentDocsKey(now, <<Extension(<<"txt">>, o[1], one),
                                   Extension(<<"pdf">>, o[2], one)>>) :
                 o \in {<<"denied", "ok">>, <<"ok", "denied">>}}
        \cup UNION {{RecentDocsKey(now,
                         <<Extension(<<"txt">>, "ok", SubSeq(vals, 1, k)),
                           Extension(<<"pdf">>, "ok", SubSeq(vals, k + 1, Len(vals)))>>) :
                        k \in 0 .. Len(vals)} :
                    vals \in SeqsUpTo(RecentDocsValues, MaxItems)}

\* rows of a history database.  `rank` orders the rows as ORDER BY ... DESC
\* does: the largest time first, NULL last.  epoch is the database's own
\* (1601 for Chrome and Edge, 1970 for Firefox).
HistoryRow(rank, title, visit_time) ==
    [rank |-> rank, url |-> <<"http://a">>, title |-> title, visit_count |-> 1,
     visit_time |-> visit_time]
LongTitle == [i \in 1 .. TITLE_LENGTH + 1 |-> "t"]
HistoryRows(w, epoch) ==
    {HistoryRow(5, <<"f">>, SomeInt(BigAdd(MaxDatetimeUs, <<1>>))),
     HistoryRow(4, <<"a">>, SomeInt(BigSub(BigAdd(w.current_time.wall, <<1>>), epoch))),
     HistoryRow(1, <<"b">>, SomeInt(BigSub(BigSub(w.cutoff_time.wall, <<1>>), epoch))),
     HistoryRow(0, <<"n">>, NoInt)}
    \cup {HistoryRow(3, t, SomeInt(BigSub(w.current_time.wall, epoch))) :
             t \in {<<"t">>, <<>>, LongTitle}}
    \cup {HistoryRow(2, <<"c">>, SomeInt(BigSub(w.cutoff_time.wall, epoch)))}

Ordered(rows) == \A i \in 1 .. Len(rows) - 1 : rows[i].rank >= rows[i + 1].rank

Database(exists, copy, query, rows) ==
    [exists |-> exists, copy |-> copy, query |-> query, rows |-> rows]

\* the databases built on a set of rows
Databases(rows) ==
    {Database("no", "ok", "ok", <<>>), Database("oserror", "ok", "ok", <<>>),
     Database("yes", "fails", "ok", <<>>), Database("yes", "ok", "fails", <<>>)}
    \cup {Database("yes", "ok", "ok", r) : r \in {q \in SeqsUpTo(rows, MaxItems) : Ordered(q)}}

\* a browser the call is not about: absent, or one visit inside the window
PlainDatabases(rows) ==
    {Database("no", "ok", "ok", <<>>)}
    \cup {Database("yes", "ok", "ok", <<r>>) : r \in {q \in rows : q.rank = 2}}

Profiles(exists, dirs) == [exists |-> exists, dirs |-> dirs]
Profile(db) == [places |-> db]
FirefoxProfiles(w, dbs) ==
    LET plain == CHOOSE db \in PlainDatabases(HistoryRows(w, Epoch1970)) : db.exists = "yes"
    IN  {Profiles(e, <<>>) : e \in {"no", "oserror"}}
        \cup {Profiles("yes", <<Profile(db)>>) : db \in dbs}
        \cup {Profiles("yes", <<Profile(db), Profile(plain)>>) :
                 db \in {d \in dbs : d.rows = <<>>}}

HistoryEnv(localappdata, appdata, chrome, edge, profiles) ==
    [localappdata |-> localappdata, appdata |-> appdata, Chrome |-> chrome,
     Edge |-> edge, profiles |-> profiles]

\* one browser takes every database, the other two a plain one
HistoryEnvs(w) ==
    LET all == Databases(HistoryRows(w, FILETIME_EPOCH))
        plain == PlainDatabases(HistoryRows(w, FILETIME_EPOCH))
        fx == FirefoxProfiles(w, Databases(HistoryRows(w, Epoch1970)))
        fxplain == {Profiles("yes", <<Profile(db)>>) :
                       db \in PlainDatabases(HistoryRows(w, Epoch1970))}
    IN  {HistoryEnv(FALSE, TRUE, c, c, Profiles("no", <<>>)) : c \in plain}
        \cup {HistoryEnv(TRUE, FALSE, c, c, Profiles("no", <<>>)) : c \in plain}
        \cup {HistoryEnv(TRUE, TRUE, c, e, f) : c \in all, e \in plain, f \in fxplain}
        \cup {HistoryEnv(TRUE, TRUE, c, e, f) : c \in plain, e \in all, f \in fxplain}
        \cup {HistoryEnv(TRUE, TRUE, c, e, f) : c \in plain, e \in plain, f \in fx}

DownloadRow(rank, target_path, start_time) ==
    [rank |-> rank, target_path |-> target_path, tab_url |-> <<"http://a/f">>,
     start_time |-> start_time, total_bytes |-> 2048, mime_type |-> <<"text/plain">>]
NoText == [none |-> TRUE, text |-> <<>>]
SomeText(text) == [none |-> FALSE, text |-> text]
DownloadRows(w) ==
    {DownloadRow(5, SomeText(<<"f">>), SomeInt(BigAdd(MaxDatetimeUs, <<1>>))),
     DownloadRow(4, SomeText(<<"a">>), SomeInt(BigAdd(w.current_time.wall, <<1>>))),
     DownloadRow(3, SomeText(<<"C", ":", "\\", "d", "\\", "f", ".", "e">>),
                 SomeInt(w.current_time.wall)),
     DownloadRow(3, NoText, SomeInt(w.current_time.wall)),
     DownloadRow(2, SomeText(<<"g">>), SomeInt(w.cutoff_time.wall)),
     DownloadRow(1, NoText, SomeInt(BigSub(w.cutoff_time.wall, <<1>>))),
     DownloadRow(0, SomeText(<<"n">>), NoInt)}

DownloadEnvs(w) ==
    {[localappdata |-> FALSE, Chrome |-> c, Edge |-> c] :
        c \in PlainDatabases(DownloadRows(w))}
    \cup {[localappdata |-> TRUE, Chrome |-> c, Edge |-> e] :
             c \in Databases(DownloadRows(w)), e \in PlainDatabases(DownloadRows(w))}
    \cup {[localappdata |-> TRUE, Chrome |-> c, Edge |-> e] :
             c \in PlainDatabases(DownloadRows(w)), e \in Databases(DownloadRows(w))}

\* what a whole run meets for each collector: nothing to report, or one
\* record inside the window; the Prefetch folder may also fail to list
RunInputs(collector_name, w) ==
    CASE collector_name = "UserAssist" ->
             {<<[open |-> o, values |-> <<v>>], [open |-> "notfound", values |-> <<>>]>> :
                 o \in {"ok", "notfound"},
                 v \in {x \in UserAssistValues(w) :
                           x.len = 72 /\ x.last_run = Ticks(w.current_time.wall)}}
      [] collector_name = "Prefetch" ->
             {d \in PrefetchDirs(w) :
                 \/ d.exists = "oserror"
                 \/ d.exists = "yes" /\ d.listing = "ok"
                    /\ d.files \in {<<>>, <<[stem |-> <<"x">>, stat |-> "ok",
                                            st_mtime |-> FileNow(w),
                                            range_error |-> "OSError"]>>}}
      [] collector_name = "Recent Files" ->
             {d \in RecentFolders(w) :
                 /\ d.appdata /\ d.exists = "yes" /\ d.listing = "ok"
                 /\ d.files \in {<<>>, <<LnkFile(<<"a.lnk">>, "ok", FileNow(w),
                                                FileBefore(w), "OSError", TRUE,
                                                DriveLnk)>>}}
      [] collector_name = "USB Devices" ->
             {t \in UsbTrees(w) :
                 \/ t.open = "notfound"
                 \/ t.open = "ok" /\ t.devices[1].open = "ok"
                    /\ t.devices[2].open # "ok"}
      [] collector_name = "PowerShell History" ->
             {HistoryFile(e, "ok", FileNow(w), "OSError", TRUE, <<<<"l", "s", "\n">>>>) :
                 e \in {"yes", "no"}}
      [] collector_name = "Browser History" ->
             {HistoryEnv(TRUE, TRUE, c, Database("yes", "ok", "fails", <<>>),
                         Profiles("no", <<>>)) :
                 c \in PlainDatabases(HistoryRows(w, FILETIME_EPOCH))}
      [] collector_name = "Downloads" ->
             {[localappdata |-> TRUE, Chrome |-> c,
               Edge |-> Database("no", "ok", "ok", <<>>)] :
                 c \in {Database("no", "ok", "ok", <<>>)}
                        \cup {Database("yes", "ok", "ok", <<r, r>>) :
                                 r \in {q \in DownloadRows(w) : q.rank = 2}}}
      [] collector_name = "RecentDocs" ->
             {k \in RecentDocsKeys(w) :
                 /\ k.open = "ok" /\ Len(k.extensions) = 1
                 /\ k.last_modified.n \in {<<>>, Ticks(w.current_time.wall)}}
      [] collector_name = "TypedPaths" ->
             {k \in TypedPathsKeys(w) :
                 /\ k.open = "ok" /\ k.last_modified.n = Ticks(w.current_time.wall)
                 /\ k.values \in {<<>>, <<[name |-> <<"a">>, type |-> "REG_SZ",
                                           data |-> <<"D:\\">>]>>}}
      [] collector_name = "RunMRU" ->
             {k \in RunMRUKeys(w) :
                 /\ k.open = "ok" /\ k.last_modified.n = Ticks(w.current_time.wall)
                 /\ k.values \in {<<>>, <<[name |-> <<"a">>, type |-> "REG_SZ",
                                           data |-> <<"c", "\\", "1">>]>>}}

\* Findings as the parsers emit them: aware timestamps inside the window
InWindowInstants(w) ==
    {t \in EdgeInstants(w) : is_within_window(w, UtcDatetime(t))}

SortFindings(w) ==
    {Finding(UtcDatetime(t), "Command Line", "RunMRU", <<d>>, <<"Entry: ", d>>) :
        t \in InWindowInstants(w), d \in {"a", "b"}}

\* Findings of two types and three sources for print_statistics
StatisticsFindings(w) ==
    {Finding(w.current_time, t[1], t[2], <<"d">>, <<"x">>) :
        t \in {<<"Command Line", "RunMRU">>, <<"Command Line", "PowerShell">>,
                <<"Registry", "TypedPaths">>}}

NoCall == [op |-> "none"]

Init ==
    /\ window = NoWindow
    /\ pc = "start"
    /\ call = NoCall
    /\ idx = 0
    /\ all_findings = <<>>
    /\ returned = <<>>
    /\ sorted_findings = <<>>
    /\ tmp_files = {}
    /\ unclosed_keys = {}
    /\ argv \in Argv
    /\ response = NoResponse
    /\ clock = Now
    /\ invoked = <<>>
    /\ statistics = NoStatistics

run_vars ==
    <<window, pc, idx, all_findings, returned, sorted_findings,
      argv, response, clock, invoked, statistics>>

\* main() checks the privileges: an administrator goes on, another user is
\* asked, and where ctypes has no windll the OSError ends main()
CheckPrivileges ==
    /\ pc = "start"
    /\ \E admin \in PrivilegeChecks :
          pc' = IF admin = "admin" THEN "construct"
                ELSE IF admin = "user" THEN "prompt"
                ELSE "OSError"
    /\ UNCHANGED <<window, call, idx, all_findings, returned, sorted_findings,
                   tmp_files, unclosed_keys, argv, response, clock, invoked, statistics>>

\* input("[?] Continue anyway? (y/n): ") returns the user's answer
AskContinue ==
    /\ pc = "prompt"
    /\ response' \in Responses
    /\ pc' = "answered"
    /\ UNCHANGED <<window, call, idx, all_findings, returned, sorted_findings,
                   tmp_files, unclosed_keys, argv, clock, invoked, statistics>>

\* main() acts on the answer: sys.exit(1), or on to the window
Answered ==
    /\ pc = "answered"
    /\ IF declined(response)
       THEN pc' = "exited" /\ response' = response
       ELSE pc' = "construct" /\ response' = NoResponse
    /\ UNCHANGED <<window, call, idx, all_findings, returned, sorted_findings,
                   tmp_files, unclosed_keys, argv, clock, invoked, statistics>>

\* main() takes the window size from sys.argv and constructs the
\* TriageWindow; int() or the constructor may raise
InitWindow ==
    /\ pc = "construct"
    /\ \E size \in {window_minutes_of(argv)} :
          IF size.raised
          THEN pc' = "ValueError" /\ window' = window
          ELSE \E triage \in {new_TriageWindow(clock, size.value)} :
                  IF triage.raised
                  THEN pc' = "OverflowError" /\ window' = window
                  ELSE pc' = "idle" /\ window' = triage.value
    /\ UNCHANGED <<call, idx, all_findings, returned, sorted_findings,
                   tmp_files, unclosed_keys, argv, response, clock, invoked, statistics>>

\* a stand-alone call of TriageWindow(window_minutes=...)
CallTriageWindow ==
    /\ pc = "idle" /\ call = NoCall
    /\ \E m \in ConstructorMinutes :
          call' = [op |-> "TriageWindow", in |-> m,
                   out |-> new_TriageWindow(clock, m)]
    /\ UNCHANGED <<run_vars, tmp_files, unclosed_keys>>

\* the two conversions of parse_browser_history, on a Chrome value c and a
\* Firefox value f for the same instant
CallBrowserTimes ==
    /\ pc = "idle" /\ call = NoCall
    /\ \E f \in UnixMicroseconds(window) :
          \E c \in {BigAdd(f, Epoch1970)} :
              call' = [op |-> "browser_times", in |-> [c |-> c, f |-> f],
                       out |-> [chrome |-> chrome_time(SomeInt(c)),
                                firefox |-> firefox_time(SomeInt(f))]]
    /\ UNCHANGED <<run_vars, tmp_files, unclosed_keys>>

\* a stand-alone call of print_statistics
CallPrintStatistics ==
    /\ pc = "idle" /\ call = NoCall
    /\ \E findings \in SeqsUpTo(StatisticsFindings(window), MaxItems + 1) :
          call' = [op |-> "print_statistics", in |-> findings,
                   out |-> print_statistics(findings)]
    /\ UNCHANGED <<run_vars, tmp_files, unclosed_keys>>

\* a stand-alone call of TriageWindow.is_within_window
CallIsWithinWindow ==
    /\ pc = "idle" /\ call = NoCall
    /\ \E t \in Timestamps(window) :
          call' = [op |-> "is_within_window", in |-> t,
                   out |-> is_within_window(window, t)]
    /\ UNCHANGED <<run_vars, tmp_files, unclosed_keys>>

\* a stand-alone call of filetime_to_datetime
CallFiletimeToDatetime ==
    /\ pc = "idle" /\ call = NoCall
    /\ \E f \in Filetimes(window) :
          call' = [op |-> "filetime_to_datetime", in |-> f,
                   out |-> filetime_to_datetime(f)]
    /\ UNCHANGED <<run_vars, tmp_files, unclosed_keys>>

\* a stand-alone call of parse_userassist
CallParseUserAssist ==
    /\ pc = "idle" /\ call = NoCall
    /\ \E keys \in UserAssistKeys(window) :
          /\ call' = [op |-> "parse_userassist", in |-> keys,
                      out |-> parse_userassist(window, keys)]
          /\ unclosed_keys' = unclosed_keys \cup userassist_unclosed(keys, 1, window)
    /\ UNCHANGED <<run_vars, tmp_files>>

\* a stand-alone call of parse_prefetch
CallParsePrefetch ==
    /\ pc = "idle" /\ call = NoCall
    /\ \E dir \in PrefetchDirs(window) :
          call' = [op |-> "parse_prefetch", in |-> dir,
                   out |-> parse_prefetch(window, dir)]
    /\ UNCHANGED <<run_vars, tmp_files, unclosed_keys>>

\* a stand-alone call of parse_recent_files
CallParseRecentFiles ==
    /\ pc = "idle" /\ call = NoCall
    /\ \E env \in RecentFolders(window) :
          call' = [op |-> "parse_recent_files", in |-> env,
                   out |-> parse_recent_files(window, env)]
    /\ UNCHANGED <<run_vars, tmp_files, unclosed_keys>>

\* a stand-alone call of parse_usb_devices
CallParseUsbDevices ==
    /\ pc = "idle" /\ call = NoCall
    /\ \E usbstor \in UsbTrees(window) :
          /\ call' = [op |-> "parse_usb_devices", in |-> usbstor,
                      out |-> parse_usb_devices(window, usbstor)]
          /\ unclosed_keys' = unclosed_keys \cup usb_unclosed(usbstor)
    /\ UNCHANGED <<run_vars, tmp_files>>

\* a stand-alone call of parse_powershell_history
CallParsePowerShellHistory ==
    /\ pc = "idle" /\ call = NoCall
    /\ \E env \in HistoryFiles(window) :
          call' = [op |-> "parse_powershell_history", in |-> env,
                   out |-> parse_powershell_history(window, env)]
    /\ UNCHANGED <<run_vars, tmp_files, unclosed_keys>>

\* a stand-alone call of parse_browser_history
CallParseBrowserHistory ==
    /\ pc = "idle" /\ call = NoCall
    /\ \E env \in HistoryEnvs(window) :
          \E out \in {parse_browser_history(window, env)} :
              /\ call' = [op |-> "parse_browser_history", in |-> env, out |-> out]
              /\ tmp_files' = tmp_files \cup out.tmp
    /\ UNCHANGED <<run_vars, unclosed_keys>>

\* a stand-alone call of parse_downloads
CallParseDownloads ==
    /\ pc = "idle" /\ call = NoCall
    /\ \E env \in DownloadEnvs(window) :
          \E out \in {parse_downloads(window, env)} :
              /\ call' = [op |-> "parse_downloads", in |-> env, out |-> out]
              /\ tmp_files' = tmp_files \cup out.tmp
    /\ UNCHANGED <<run_vars, unclosed_keys>>

\* a stand-alone call of parse_recentdocs
CallParseRecentDocs ==
    /\ pc = "idle" /\ call = NoCall
    /\ \E key \in RecentDocsKeys(window) :
          /\ call' = [op |-> "parse_recentdocs", in |-> key,
                      out |-> parse_recentdocs(window, key)]
          /\ unclosed_keys' = unclosed_keys \cup recentdocs_unclosed(window, key)
    /\ UNCHANGED <<run_vars, tmp_files>>

\* a stand-alone call of parse_runmru
CallParseRunMRU ==
    /\ pc = "idle" /\ call = NoCall
    /\ \E key \in RunMRUKeys(window) :
          /\ call' = [op |-> "parse_runmru", in |-> key,
                      out |-> parse_runmru(window, key)]
          /\ unclosed_keys' = unclosed_keys \cup runmru_unclosed(window, key)
    /\ UNCHANGED <<run_vars, tmp_files>>

\* a stand-alone call of parse_typed_paths
CallParseTypedPaths ==
    /\ pc = "idle" /\ call = NoCall
    /\ \E key \in TypedPathsKeys(window) :
          /\ call' = [op |-> "parse_typed_paths", in |-> key,
                      out |-> parse_typed_paths(window, key)]
          /\ unclosed_keys' = unclosed_keys \cup typed_paths_unclosed(window, key)
    /\ UNCHANGED <<run_vars, tmp_files>>

\* a stand-alone call of sort_findings_by_timestamp
CallSort ==
    /\ pc = "idle" /\ call = NoCall
    /\ \E findings \in SeqsUpTo(SortFindings(window), MaxItems + 1) :
          call' = [op |-> "sort_findings_by_timestamp", in |-> findings,
                   out |-> sort_findings_by_timestamp(findings)]
    /\ UNCHANGED <<run_vars, tmp_files, unclosed_keys>>

\* main() has built the TriageWindow and calls collect_all_artifacts
StartCollect ==
    /\ pc = "idle" /\ call = NoCall
    /\ pc' = "collect"
    /\ idx' = 1
    /\ all_findings' = <<>>
    /\ UNCHANGED <<window, call, returned, sorted_findings, tmp_files, unclosed_keys,
                   argv, response, clock, invoked, statistics>>

\* time passes while the collectors run
Tick ==
    /\ pc = "collect"
    /\ BigLess(clock, LaterClock)
    /\ clock' = LaterClock
    /\ UNCHANGED <<window, pc, call, idx, all_findings, returned,
                   sorted_findings, tmp_files, unclosed_keys, argv, response, invoked,
                   statistics>>

\* one pass of the loop in which the collector gets a window whose
\* current_time is read from the clock again
Collect_rereading_clock ==
    /\ pc = "collect" /\ idx <= Len(collectors)
    /\ window' = [window EXCEPT !.current_time = UtcDatetime(clock)]
    /\ \E env \in RunInputs(collectors[idx], window) :
          \E results \in {collector_func(collectors[idx], window', env)} :
              /\ all_findings' = extend_or_report(all_findings, results)
              /\ returned' = Append(returned, results)
              /\ tmp_files' = tmp_files \cup results.tmp
              /\ unclosed_keys' = unclosed_keys
                     \cup collector_unclosed(collectors[idx], window', env)
    /\ invoked' = Append(invoked, [collector_name |-> collectors[idx],
                                   triage_window |-> window'])
    /\ idx' = idx + 1
    /\ UNCHANGED <<pc, call, sorted_findings, argv, response, clock, statistics>>

\* one pass of the loop of collect_all_artifacts: the next collector runs
\* on what the machine holds for it; `returned` keeps what each collector
\* did
Collect ==
    /\ pc = "collect" /\ idx <= Len(collectors)
    /\ \E env \in RunInputs(collectors[idx], window) :
          \E results \in {collector_func(collectors[idx], window, env)} :
              /\ all_findings' = extend_or_report(all_findings, results)
              /\ returned' = Append(returned, results)
              /\ tmp_files' = tmp_files \cup results.tmp
              /\ unclosed_keys' = unclosed_keys
                     \cup collector_unclosed(collectors[idx], window, env)
    /\ invoked' = Append(invoked, [collector_name |-> collectors[idx],
                                   triage_window |-> window])
    /\ idx' = idx + 1
    /\ UNCHANGED <<window, pc, call, sorted_findings, argv, response, clock,
                   statistics>>

\* collect_all_artifacts returns and main() sorts the findings
SortCollected ==
    /\ pc = "collect" /\ idx > Len(collectors)
    /\ sorted_findings' = sort_findings_by_timestamp(all_findings)
    /\ pc' = "done"
    /\ UNCHANGED <<window, call, idx, all_findings, returned, tmp_files, unclosed_keys,
                   argv, response, clock, invoked, statistics>>

\* main() reports: print_statistics is called when there are findings
Report ==
    /\ pc = "done"
    /\ statistics' = IF sorted_findings # <<>>
                     THEN print_statistics(sorted_findings)
                     ELSE NoStatistics
    /\ pc' = "reported"
    /\ UNCHANGED <<window, call, idx, all_findings, returned, sorted_findings,
                   tmp_files, unclosed_keys, argv, response, clock, invoked>>

Next ==
    \/ CheckPrivileges
    \/ AskContinue
    \/ Answered
    \/ InitWindow
    \/ CallTriageWindow
    \/ CallPrintStatistics
    \/ CallBrowserTimes
    \/ CallIsWithinWindow
    \/ CallFiletimeToDatetime
    \/ CallParseUserAssist
    \/ CallParsePrefetch
    \/ CallParseRecentFiles
    \/ CallParseUsbDevices
    \/ CallParsePowerShellHistory
    \/ CallParseBrowserHistory
    \/ CallParseDownloads
    \/ CallParseRecentDocs
    \/ CallParseRunMRU
    \/ CallParseTypedPaths
    \/ CallSort
    \/ StartCollect
    \/ Tick
    \/ Collect
    \/ SortCollected
    \/ Report

Spec == Init /\ [][Next]_vars

(***************************************************************************)
(* Properties                                                              *)
(***************************************************************************)
ParserOps ==
    {"parse_userassist", "parse_prefetch", "parse_recent_files",
     "parse_usb_devices", "parse_powershell_history", "parse_runmru",
     "parse_browser_history", "parse_downloads", "parse_recentdocs",
     "parse_typed_paths"}

\* a UTC instant, in microseconds since 1601, lies inside the run's window
InsideWindow(us) ==
    /\ BigCmp(window.cutoff_time.wall, us) <= 0
    /\ BigCmp(us, window.current_time.wall) <= 0

FindingInsideWindow(f) ==
    /\ ~f.timestamp_dt.none
    /\ InsideWindow(BigSub(f.timestamp_dt.wall,
                           Million(BigFromInt(60 * f.timestamp_dt.off))))

\* C1: every Finding a parser returns, and so every Finding the run
\* collects, has a timestamp_dt that is not null and lies in
\* [cutoff_time, current_time] of the window the parser was given.
C1_FindingsInsideWindow ==
    /\ call.op \in ParserOps =>
          \A i \in 1 .. Len(call.out.findings) :
              FindingInsideWindow(call.out.findings[i])
    /\ \A i \in 1 .. Len(all_findings) : FindingInsideWindow(all_findings[i])

\* C1 witness: parse_userassist met a value that was never run (FILETIME 0,
\* a null timestamp) and a value run a microsecond after the window, and
\* reported neither.
C1_Witness ==
    /\ call.op = "parse_userassist"
    /\ call.in[1].open = "ok" /\ call.in[2].open = "ok"
    /\ Len(call.in[1].values) = 1 /\ Len(call.in[2].values) = 1
    /\ call.in[1].values[1].len = 72 /\ call.in[1].values[1].last_run = <<>>
    /\ call.in[2].values[1].len = 72
    /\ BigLess(Ticks(window.current_time.wall), call.in[2].values[1].last_run)
    /\ call.out.findings = <<>>

\* what the collectors that returned have returned, in order
RECURSIVE Contributions(_)
Contributions(outcomes) ==
    IF outcomes = <<>> THEN <<>>
    ELSE (IF Head(outcomes).raised THEN <<>> ELSE Head(outcomes).findings)
         \o Contributions(Tail(outcomes))

\* C2: all_findings holds exactly the Findings of the collectors that
\* returned, those before and those after one that raised, and nothing for
\* the one that raised.
C2_FaultIsolated == all_findings = Contributions(returned)

\* C2 witness: the run is over, the second collector raised, the first and
\* the third each returned a Finding, and both are in all_findings.
C2_Witness ==
    /\ pc = "done" /\ Len(returned) = Len(collectors)
    /\ returned[2].raised
    /\ Len(returned[1].findings) = 1 /\ Len(returned[3].findings) = 1
    /\ Len(all_findings) >= 2
    /\ all_findings[1] = returned[1].findings[1]
    /\ all_findings[2] = returned[3].findings[1]

\* C3: no parser call raises to its caller, whatever it meets.
C3_NeverRaises ==
    /\ call.op \in ParserOps => ~call.out.raised
    /\ \A i \in 1 .. Len(returned) : ~returned[i].raised

\* C4: no temporary copy of a browser database is left when
\* parse_browser_history or parse_downloads has returned.
C4_TempCopiesDeleted == tmp_files = {}

\* the rows of a database that can be parsed and lie inside the window;
\* epoch is the database's own, texts tells whether target_path is needed
ReportableRows(db, epoch, texts) ==
    LET Reportable(row) ==
            LET t == IF texts THEN row.start_time ELSE row.visit_time
            IN  /\ ~t.none
                /\ BigCmp(BigAdd(epoch, t.n), MaxDatetimeUs) <= 0
                /\ InsideWindow(BigAdd(epoch, t.n))
                /\ texts => ~row.target_path.none
    IN  SelectSeq(db.rows, Reportable)

FindingsOf(findings, source) ==
    LET From(f) == f.source = source IN SelectSeq(findings, From)

Readable(db) == db.exists = "yes" /\ db.copy = "ok" /\ db.query = "ok"

\* C5: of a browser database whose rows were read, every row that can be
\* parsed and lies inside the window is reported, whatever rows come
\* before it.
C5_BadRowSkipped ==
    /\ (call.op = "parse_browser_history" /\ call.in.localappdata /\ call.in.appdata) =>
          /\ Readable(call.in.Chrome) =>
                Len(FindingsOf(call.out.findings, "Chrome Browser"))
                    = Len(ReportableRows(call.in.Chrome, FILETIME_EPOCH, FALSE))
          /\ Readable(call.in.Edge) =>
                Len(FindingsOf(call.out.findings, "Edge Browser"))
                    = Len(ReportableRows(call.in.Edge, FILETIME_EPOCH, FALSE))
          /\ Readable(firefox_profile(call.in.profiles)) =>
                Len(FindingsOf(call.out.findings, "Firefox Browser"))
                    = Len(ReportableRows(firefox_profile(call.in.profiles),
                                         Epoch1970, FALSE))
    /\ (call.op = "parse_downloads" /\ call.in.localappdata) =>
          /\ Readable(call.in.Chrome) =>
                Len(FindingsOf(call.out.findings, "Chrome Browser"))
                    = Len(ReportableRows(call.in.Chrome, FILETIME_EPOCH, TRUE))
          /\ Readable(call.in.Edge) =>
                Len(FindingsOf(call.out.findings, "Edge Browser"))
                    = Len(ReportableRows(call.in.Edge, FILETIME_EPOCH, TRUE))

\* a shortcut whose times the platform converts (an out-of-range time is an
\* OSError there, which skips the file like a failing stat)
Converts(lnk) ==
    /\ BigCmp(BigAdd(Epoch1970, lnk.st_mtime), MaxDatetimeUs) <= 0
    /\ BigCmp(BigAdd(Epoch1970, lnk.st_ctime), MaxDatetimeUs) <= 0

\* the shortcuts of a folder that can be stat'ed and whose later time lies
\* inside the window
RecentShortcuts(files) ==
    LET Later(lnk) == IF BigLess(lnk.st_mtime, lnk.st_ctime) THEN lnk.st_ctime
                      ELSE lnk.st_mtime
        Recent(lnk) == /\ lnk.stat = "ok" /\ Converts(lnk)
                       /\ InsideWindow(BigAdd(Epoch1970, Later(lnk)))
    IN  SelectSeq(files, Recent)

\* no ":\" and no "\\" anywhere: nothing path-shaped
NothingPathShaped(content) ==
    \A i \in 1 .. Len(content) - 1 :
        content[i + 1] = "\\" => content[i] \notin {":", "\\"}

\* C6: in a Recent folder in which no shortcut's time makes the conversion
\* raise a ValueError, every shortcut that can be stat'ed and lies inside
\* the window yields exactly one Finding, in order, whatever the other
\* shortcuts are; one that cannot be read, lacks the leading 0x4C or holds
\* nothing path-shaped carries a placeholder as its target.
C6_BadShortcutTolerated ==
    (/\ call.op = "parse_recent_files"
     /\ call.in.appdata /\ call.in.exists = "yes" /\ call.in.listing = "ok"
     /\ \A i \in 1 .. Len(call.in.files) :
           call.in.files[i].stat = "ok" /\ ~Converts(call.in.files[i])
               => call.in.files[i].range_error = "OSError") =>
        LET recent == RecentShortcuts(call.in.files)
            found == call.out.findings
        IN  /\ ~call.out.raised
            /\ Len(found) = Len(recent)
            /\ \A i \in 1 .. Len(recent) :
                  /\ found[i].description = recent[i].name
                  /\ found[i].details[1] = "Target: "
                  /\ ~recent[i].readable =>
                        Tail(found[i].details) = <<"Error parsing .lnk file">>
                  /\ (/\ recent[i].readable
                      /\ \/ Len(recent[i].content) < 4
                         \/ recent[i].content[1] # "L") =>
                        Tail(found[i].details) = <<"Invalid .lnk file">>
                  /\ (/\ recent[i].readable
                      /\ Len(recent[i].content) >= 4 /\ recent[i].content[1] = "L"
                      /\ NothingPathShaped(recent[i].content)) =>
                        Tail(found[i].details) = <<"Unable to parse target path">>

\* C6 witness: a shortcut that cannot be stat'ed is followed by one inside
\* the window that holds nothing path-shaped, which is reported with the
\* placeholder.
C6_Witness ==
    /\ call.op = "parse_recent_files"
    /\ Len(call.in.files) = 2
    /\ call.in.files[1].stat = "oserror"
    /\ call.in.files[2].stat = "ok" /\ call.in.files[2].readable
    /\ call.in.files[2].content = <<"L", "x", NUL, "y">>
    /\ Len(call.out.findings) = 1
    /\ call.out.findings[1].details = <<"Target: ", "Unable to parse target path">>

\* the instant a timestamp denotes when a zone-less one is read as UTC
InstantOf(t) ==
    IF t.aware THEN BigSub(t.wall, Million(BigFromInt(60 * t.off))) ELSE t.wall

\* C7: is_within_window(t) is false for a null timestamp and otherwise true
\* exactly when cutoff_time <= t <= current_time, a zone-less t read as UTC,
\* both edges included.
C7_WindowInclusive ==
    call.op = "is_within_window" =>
        call.out = (/\ ~call.in.none
                    /\ BigCmp(window.cutoff_time.wall, InstantOf(call.in)) <= 0
                    /\ BigCmp(InstantOf(call.in), window.current_time.wall) <= 0)

\* C7 witness: a zone-less timestamp equal to cutoff_time, strictly before
\* current_time, was found inside the window.
C7_Witness ==
    /\ call.op = "is_within_window"
    /\ ~call.in.none /\ ~call.in.aware
    /\ call.in.wall = window.cutoff_time.wall
    /\ call.in.wall # window.current_time.wall
    /\ call.out = TRUE

\* C9: filetime_to_datetime returns null for 0 and for an absent input,
\* null when the result is beyond datetime.max, and otherwise the instant
\* 1601-01-01T00:00:00Z + ticks / 10,000,000 s (to the microsecond that
\* holds the tick: less than one microsecond away from it).
C9_FiletimeExact ==
    call.op = "filetime_to_datetime" =>
        LET n == call.in.n
            last == BigAdd(BigMulSmall(MaxDatetimeUs, 10), <<9>>)
            ticks == BigMulSmall(call.out.wall, 10)
        IN  IF call.in.none \/ n = <<>> THEN call.out.none
            ELSE IF BigLess(last, n) THEN call.out.none
            ELSE /\ ~call.out.none
                 /\ BigLess(n, BigAdd(ticks, <<10>>))
                 /\ BigLess(ticks, BigAdd(n, <<10>>))

SameInstant(x, y) == BigCmp(InstantOf(x.timestamp_dt), InstantOf(y.timestamp_dt)) = 0

\* C8: sort_findings_by_timestamp returns a permutation of its input with
\* non-increasing timestamps in which Findings of equal timestamp keep the
\* relative order they had in the input.
C8_SortStableDescending ==
    call.op = "sort_findings_by_timestamp" =>
        /\ Len(call.out) = Len(call.in)
        /\ \A i \in 1 .. Len(call.out) - 1 :
              BigCmp(InstantOf(call.out[i].timestamp_dt),
                     InstantOf(call.out[i + 1].timestamp_dt)) >= 0
        /\ \A i \in 1 .. Len(call.in) :
              LET Same(x) == SameInstant(x, call.in[i])
              IN  SelectSeq(call.out, Same) = SelectSeq(call.in, Same)

\* C8 witness: an input in ascending order holding two different Findings
\* of one timestamp was sorted.
C8_Witness ==
    /\ call.op = "sort_findings_by_timestamp"
    /\ Len(call.in) = 3
    /\ SameInstant(call.in[1], call.in[2])
    /\ call.in[1] # call.in[2]
    /\ BigCmp(InstantOf(call.in[2].timestamp_dt),
              InstantOf(call.in[3].timestamp_dt)) < 0
    /\ call.out = <<call.in[3], call.in[1], call.in[2]>>

\* the data of a RunMRU value without its trailing \1 marker
WithoutMarker(data) ==
    IF Len(data) >= 2 /\ SubSeq(data, Len(data) - 1, Len(data)) = <<"\\", "1">>
    THEN SubSeq(data, 1, Len(data) - 2)
    ELSE data

\* the values of a key that parse_runmru emits, in order
Emitted(values) ==
    LET Is(v) == v.name # MRUList /\ v.data # <<>>
    IN  SelectSeq(values, Is)

\* C10: the description of every Finding parse_runmru emits is the value's
\* data with the trailing \1 marker removed and nothing else changed.
C10_MarkerStripped ==
    call.op = "parse_runmru" =>
        \A i \in 1 .. Len(call.out.findings) :
            call.out.findings[i].description
                = WithoutMarker(Emitted(call.in.values)[i].data)

\* the values of a key other than the MRUList index, in order
NamedCommands(values) ==
    SelectSeq(values, LAMBDA v : v.name # MRUList)

\* C11: when the RunMRU key was last modified inside the window,
\* parse_runmru emits one Finding (source RunMRU, type Command Line) for
\* every value not named MRUList, in order, and none for MRUList: as many
\* Findings as there are such values.
C11_OnePerValue ==
    (/\ call.op = "parse_runmru" /\ call.in.open = "ok"
     /\ ~call.in.last_modified.none
     /\ InsideWindow(BigDivSmall(call.in.last_modified.n, 10))) =>
        LET named == NamedCommands(call.in.values)
            found == call.out.findings
        IN  /\ Len(found) = Len(named)
            /\ \A i \in 1 .. Len(found) :
                  /\ found[i].source = "RunMRU"
                  /\ found[i].artifact_type = "Command Line"
                  /\ found[i].details = <<"Entry: ">> \o named[i].name

\* a line of the history file that holds more than whitespace
NonBlank(line) == \E i \in 1 .. Len(line) : line[i] \notin Whitespace

\* a line without its line terminator
LineText(line) ==
    IF line # <<>> /\ line[Len(line)] = "\n"
    THEN SubSeq(line, 1, Len(line) - 1)
    ELSE line

\* texts written one after the other with "; " between them
RECURSIVE Listed(_)
Listed(texts) ==
    IF texts = <<>> THEN <<>>
    ELSE IF Len(texts) = 1 THEN texts[1]
    ELSE Listed(SubSeq(texts, 1, Len(texts) - 1)) \o <<";", " ">> \o texts[Len(texts)]

\* the last min(5, n) of the n non-blank lines, in file order
LastFive(lines) ==
    LET kept == SelectSeq(lines, NonBlank)
        n == Len(kept)
        k == IF n < 5 THEN n ELSE 5
    IN  [i \in 1 .. k |-> LineText(kept[n - k + i])]

\* C12: a readable history file modified inside the window with n >= 1
\* non-blank lines yields exactly one Finding, whose description reports n
\* and whose details list the last min(5, n) non-blank lines in file order;
\* a file modified outside the window or without a non-blank line yields
\* none.
C12_HistorySummarised ==
    (/\ call.op = "parse_powershell_history"
     /\ call.in.appdata /\ call.in.exists = "yes" /\ call.in.stat = "ok") =>
        LET n == Len(SelectSeq(call.in.lines, NonBlank))
            inside == InsideWindow(BigAdd(Epoch1970, call.in.st_mtime))
            found == call.out.findings
        IN  /\ (inside /\ n >= 1 /\ call.in.readable) =>
                  /\ Len(found) = 1
                  /\ found[1].description
                         = <<"History file modified (", ToString(n), " commands)">>
                  /\ found[1].details
                         = <<"Last 5 commands: ">> \o Listed(LastFive(call.in.lines))
                  /\ found[1].timestamp_dt
                         = UtcDatetime(BigAdd(Epoch1970, call.in.st_mtime))
            /\ (~inside \/ n = 0) => found = <<>>

\* C12 witness: a history file of seven lines modified inside the window
\* was summarised in one Finding that lists its lines 3 to 7.
C12_Witness ==
    /\ call.op = "parse_powershell_history"
    /\ Len(call.in.lines) = 7
    /\ Len(call.out.findings) = 1
    /\ call.out.findings[1].description
           = <<"History file modified (", "7", " commands)">>
    /\ call.out.findings[1].details
           = <<"Last 5 commands: ", "3", ";", " ", "4", ";", " ", "5", ";", " ",
               "6", ";", " ", "7">>

\* the order of the parsers in the table of section 4.3
Section43Order ==
    <<"UserAssist", "Prefetch", "Recent Files", "USB Devices",
      "PowerShell History", "RunMRU", "Browser History", "Downloads",
      "RecentDocs", "TypedPaths">>

\* C13: collect_all_artifacts calls each parser once, in the order of the
\* table of section 4.3, and has called all ten when it returns.
C13_FixedOrder ==
    /\ Len(invoked) <= Len(Section43Order)
    /\ \A i \in 1 .. Len(invoked) : invoked[i].collector_name = Section43Order[i]
    /\ pc \in {"done", "reported"} => Len(invoked) = Len(Section43Order)

\* main() has constructed the TriageWindow
WindowBuilt == pc \in {"idle", "collect", "done", "reported"}

\* C14: once constructed, the TriageWindow is changed by no step (no parser
\* call, no collection, sorting or reporting step), and every collector is
\* given that same window, whatever the system clock has moved on to.
C14_WindowReadOnly ==
    [][WindowBuilt =>
          /\ window' = window
          /\ \A i \in 1 .. Len(invoked') : invoked'[i].triage_window = window]_vars

\* C14 witness: the run has reported, the clock has moved past the
\* window's current_time, and all ten collectors got the window.
C14_Witness ==
    /\ pc = "reported"
    /\ clock # window.current_time.wall
    /\ Len(invoked) = Len(collectors)
    /\ \A i \in 1 .. Len(invoked) : invoked[i].triage_window = window
    /\ all_findings # <<>>

\* C15: every TriageWindow that is constructed, by main() or by a caller of
\* the constructor, has cutoff_time <= current_time.
C15_CutoffNotAfterNow ==
    /\ WindowBuilt => DatetimeLeq(window.cutoff_time, window.current_time)
    /\ (call.op = "TriageWindow" /\ ~call.out.raised) =>
          DatetimeLeq(call.out.value.cutoff_time, call.out.value.current_time)

\* an argument made of decimal digits only
Numeral(text) == text # <<>> /\ \A i \in 1 .. Len(text) : IsDecimal(text[i])

\* the window size of a run: the first argument when it is a number that a
\* window can have, else the default
SizeFor(args) ==
    IF /\ Len(args) >= 1 /\ Numeral(args[1])
       /\ ~TriageWindowOverflows(Now, DecimalValue(args[1]))
    THEN DecimalValue(args[1])
    ELSE DEFAULT_WINDOW

\* C16: once main() is past the construction of the window, the run goes
\* on (no exception has ended it) with the first argument as the window
\* size when that is numeric and usable, and with the default 180 otherwise.
C16_ArgumentOrDefault ==
    pc \notin {"start", "prompt", "answered", "construct", "exited", "OSError"} =>
        /\ WindowBuilt
        /\ window.window_minutes = SizeFor(argv)

\* how often x occurs in the list s
RECURSIVE Occurrences(_, _)
Occurrences(x, s) ==
    IF s = <<>> THEN 0
    ELSE (IF Head(s) = x THEN 1 ELSE 0) + Occurrences(x, Tail(s))

\* how many Findings the collectors that returned have returned
RECURSIVE Returned(_)
Returned(outcomes) ==
    IF outcomes = <<>> THEN 0
    ELSE (IF Head(outcomes).raised THEN 0 ELSE Len(Head(outcomes).findings))
         + Returned(Tail(outcomes))

\* C17: all_findings is the concatenation of the lists of the parsers that
\* returned, equal Findings kept apart; nothing is sorted before every
\* parser has returned or raised, and the sorted list holds every Finding
\* as often as all_findings does.
C17_NothingLost ==
    /\ Len(all_findings) = Returned(returned)
    /\ \A i \in 1 .. Len(all_findings) :
          Occurrences(all_findings[i], all_findings)
              = Occurrences(all_findings[i], Contributions(returned))
    /\ pc \notin {"done", "reported"} => sorted_findings = <<>>
    /\ pc \in {"done", "reported"} =>
          /\ Len(returned) = Len(collectors)
          /\ Len(sorted_findings) = Len(all_findings)
          /\ \A i \in 1 .. Len(all_findings) :
                Occurrences(all_findings[i], sorted_findings)
                    = Occurrences(all_findings[i], all_findings)

\* C17 witness: the run is over and the sorted report holds two Findings
\* that are equal field for field.
C17_Witness ==
    /\ pc = "done"
    /\ \E i, j \in 1 .. Len(sorted_findings) :
          i < j /\ sorted_findings[i] = sorted_findings[j]

\* C18: the Chrome conversion of c and the Firefox conversion of f both
\* yield a datetime, and the same one to the microsecond, whenever
\* c = f + 11,644,473,600,000,000.
C18_EpochsAgree ==
    (/\ call.op = "browser_times"
     /\ call.in.c = BigAdd(call.in.f, Big(<<1, 1644, 4736, 0, 0>>))) =>
        /\ ~call.out.chrome.raised /\ ~call.out.firefox.raised
        /\ call.out.chrome.value = call.out.firefox.value

\* C19 as stated: every answer other than 'y' ends the program before the
\* window is constructed and before a parser is called, and so does a
\* privilege check on an operating system that is not supported.
C19_AnyOtherAnswerExits ==
    [][/\ (pc = "answered" /\ response # <<"y">>) =>
              pc' = "exited" /\ window' = NoWindow /\ invoked' = <<>>
       /\ pc' = "OSError" => window' = NoWindow /\ invoked' = <<>>
       /\ pc \notin {"exited", "OSError"}]_vars

\* C19, amended: every answer other than 'y' or 'Y' ends the program
\* before the window is constructed and before a parser is called, and so
\* does a privilege check on an operating system that is not supported;
\* nothing happens after either.
C19_DeclineExits ==
    [][/\ (pc = "answered" /\ response \notin {<<"y">>, <<"Y">>}) =>
              pc' = "exited" /\ window' = NoWindow /\ invoked' = <<>>
       /\ pc' = "OSError" => window' = NoWindow /\ invoked' = <<>>
       /\ pc \notin {"exited", "OSError"}]_vars

\* C19 witness: the user answered with an empty line and the program
\* exited with no window and no parser called.
C19_Witness ==
    /\ pc = "exited" /\ response = <<>>
    /\ window = NoWindow /\ invoked = <<>> /\ returned = <<>>

\* the position of the first Finding with this type or source
FirstWith(findings, field, key) ==
    CHOOSE i \in 1 .. Len(findings) :
        /\ findings[i][field] = key
        /\ \A j \in 1 .. i - 1 : findings[j][field] # key

\* `printed` lists every type (or source) of the findings once with the
\* number of findings that have it, counts non-increasing, groups of equal
\* count in the order of their first Finding
CountedInOrder(findings, field, printed) ==
    /\ {printed[i].key : i \in 1 .. Len(printed)}
           = {findings[i][field] : i \in 1 .. Len(findings)}
    /\ \A i \in 1 .. Len(printed) :
          printed[i].count
              = Cardinality({j \in 1 .. Len(findings) :
                                findings[j][field] = printed[i].key})
    /\ \A i, j \in 1 .. Len(printed) :
          i < j =>
              /\ printed[i].key # printed[j].key
              /\ printed[i].count >= printed[j].count
              /\ printed[i].count = printed[j].count =>
                    FirstWith(findings, field, printed[i].key)
                        < FirstWith(findings, field, printed[j].key)

\* C20: print_statistics lists the type counts and the source counts in
\* non-increasing order of count, groups of equal count in the order of
\* their first Finding, each count the number of Findings of that type or
\* source; so does the report of a run.
C20_StatisticsOrdered ==
    /\ call.op = "print_statistics" =>
          /\ CountedInOrder(call.in, "artifact_type", call.out.types)
          /\ CountedInOrder(call.in, "source", call.out.sources)
    /\ pc = "reported" =>
          /\ CountedInOrder(sorted_findings, "artifact_type", statistics.types)
          /\ CountedInOrder(sorted_findings, "source", statistics.sources)

\* C20 witness: of three Findings the last two share a type the first does
\* not have; that type is printed first with count 2, and the three
\* sources, one Finding each, are printed in the order of the input.
C20_Witness ==
    /\ call.op = "print_statistics" /\ Len(call.in) = 3
    /\ call.in[1].artifact_type = "Registry"
    /\ call.out.types = <<[key |-> "Command Line", count |-> 2],
                          [key |-> "Registry", count |-> 1]>>
    /\ call.out.sources = <<[key |-> call.in[1].source, count |-> 1],
                            [key |-> call.in[2].source, count |-> 1],
                            [key |-> call.in[3].source, count |-> 1]>>

\* the registry parsers that stamp their Findings with the time of a key
KeyTimeOps == {"parse_runmru", "parse_typed_paths", "parse_recentdocs"}

\* the converted last-modified time of the key the call queried
KeyModified == filetime_to_datetime(call.in.last_modified)

\* C21: the Findings of one call of parse_runmru, parse_typed_paths or
\* parse_recentdocs all carry the converted last-modified time of the one
\* key queried; when that time is null or outside the window the call
\* returns no Finding; when it is inside, every value of the TypedPaths key
\* and every value of the RunMRU key but the MRUList index is emitted, in
\* order.
C21_SharedKeyTime ==
    (call.op \in KeyTimeOps /\ call.in.open = "ok") =>
        LET found == call.out.findings
        IN  /\ \A i \in 1 .. Len(found) : found[i].timestamp_dt = KeyModified
            /\ (KeyModified.none \/ ~InsideWindow(InstantOf(KeyModified))) =>
                  found = <<>>
            /\ (~KeyModified.none /\ InsideWindow(InstantOf(KeyModified))) =>
                  /\ call.op = "parse_typed_paths" =>
                        /\ Len(found) = Len(call.in.values)
                        /\ \A i \in 1 .. Len(found) :
                              found[i].description = call.in.values[i].data
                  /\ call.op = "parse_runmru" =>
                        Len(found) = Len(NamedCommands(call.in.values))

\* the values of the GUID keys that can be opened, first key first
RECURSIVE OpenedValues(_)
OpenedValues(keys) ==
    IF keys = <<>> THEN <<>>
    ELSE (IF Head(keys).open = "ok" THEN Head(keys).values ELSE <<>>)
         \o OpenedValues(Tail(keys))

\* what the values report one by one: a value that is no byte string or is
\* shorter than 72 bytes nothing, the others their entry
RECURSIVE EntriesOf(_)
EntriesOf(values) ==
    IF values = <<>> THEN <<>>
    ELSE (IF Head(values).type = "REG_BINARY"
          THEN userassist_entry(Head(values),
                                filetime_to_datetime(SomeInt(Head(values).last_run)),
                                window)
          ELSE <<>>)
         \o EntriesOf(Tail(values))

\* C22: in parse_userassist a value that is too short or malformed produces
\* no Finding and does not stop the enumeration: the values after it and
\* the values of the second GUID key are still examined, and so are those
\* of the second key when the first is missing or inaccessible.
C22_MalformedValueSkipped ==
    call.op = "parse_userassist" =>
        call.out.findings = EntriesOf(OpenedValues(call.in))

\* what the instances of a device that can be opened and read report
RECURSIVE InstanceEntries(_)
InstanceEntries(instances) ==
    IF instances = <<>> THEN <<>>
    ELSE (IF Head(instances).open = "ok" /\ ~friendly_name(Head(instances)).raised
          THEN usb_instance(Head(instances),
                            get_device_install_time(Head(instances).property),
                            window)
          ELSE <<>>)
         \o InstanceEntries(Tail(instances))

\* what the devices that can be opened report
RECURSIVE DeviceEntries(_)
DeviceEntries(devices) ==
    IF devices = <<>> THEN <<>>
    ELSE (IF Head(devices).open = "ok"
          THEN InstanceEntries(Head(devices).instances) ELSE <<>>)
         \o DeviceEntries(Tail(devices))

\* what the extension subkeys that can be opened report
RECURSIVE ExtensionEntries(_, _)
ExtensionEntries(extensions, key_modified) ==
    IF extensions = <<>> THEN <<>>
    ELSE (IF Head(extensions).open = "ok"
          THEN recentdocs_values(Head(extensions).values, Head(extensions).name,
                                 key_modified)
          ELSE <<>>)
         \o ExtensionEntries(Tail(extensions), key_modified)

\* C23: in parse_usb_devices and parse_recentdocs a device, instance or
\* extension subkey that cannot be opened or read is left out alone: every
\* other subkey is still enumerated and its entries inside the window are
\* emitted.
C23_SubkeyFailureContained ==
    /\ (call.op = "parse_usb_devices" /\ call.in.open = "ok") =>
          call.out.findings = DeviceEntries(call.in.devices)
    /\ (/\ call.op = "parse_recentdocs" /\ call.in.open = "ok"
        /\ ~KeyModified.none /\ InsideWindow(InstantOf(KeyModified))) =>
          call.out.findings = ExtensionEntries(call.in.extensions, KeyModified)

\* the instances of a USBSTOR tree, device by device
RECURSIVE InstancesOf(_)
InstancesOf(devices) ==
    IF devices = <<>> THEN <<>>
    ELSE Head(devices).instances \o InstancesOf(Tail(devices))

\* the name an instance is described by
DescribedBy(instance) ==
    IF instance.FriendlyName.query = "ok" THEN instance.FriendlyName.value
    ELSE IF instance.DeviceDesc.query = "ok" THEN instance.DeviceDesc.value
    ELSE <<"Unknown Device">>

\* the install-time property is there, holds at least 8 bytes and a
\* FILETIME other than 0
InstallTimeKnown(instance) ==
    /\ instance.property.open = "ok" /\ instance.property.query = "ok"
    /\ instance.property.is_bytes /\ instance.property.len >= 8
    /\ instance.property.filetime # <<>>

\* C24: every Finding of parse_usb_devices describes an instance by its
\* FriendlyName when that exists, else by its DeviceDesc when that exists,
\* else as 'Unknown Device', and comes from an instance whose install-time
\* property is there, holds at least 8 bytes and is not FILETIME 0: an
\* instance without such a property produces no Finding.
C24_DeviceDescribed ==
    (call.op = "parse_usb_devices" /\ call.in.open = "ok") =>
        LET instances == InstancesOf(call.in.devices)
            found == call.out.findings
            known == SelectSeq(instances, InstallTimeKnown)
        IN  /\ Len(found) <= Len(known)
            /\ \A i \in 1 .. Len(found) :
                  \E k \in 1 .. Len(known) :
                      /\ found[i].details = <<"Instance: ">> \o known[k].id
                      /\ found[i].description = DescribedBy(known[k])
                      /\ found[i].timestamp_dt
                             = filetime_to_datetime(SomeInt(known[k].property.filetime))

\* C24 witness: a device with an instance that has neither name and an
\* instance whose install-time property holds 4 bytes; the one Finding is
\* for the first and describes it as Unknown Device.
C24_Witness ==
    /\ call.op = "parse_usb_devices" /\ call.in.open = "ok"
    /\ Len(call.in.devices[1].instances) = 2
    /\ call.in.devices[1].instances[1].FriendlyName.query = "notfound"
    /\ call.in.devices[1].instances[1].DeviceDesc.query = "notfound"
    /\ call.in.devices[1].instances[1].open = "ok"
    /\ call.in.devices[1].instances[2].property.len = 4
    /\ Len(call.out.findings) = 1
    /\ call.out.findings[1].description = <<"Unknown Device">>
    /\ call.out.findings[1].details
           = <<"Instance: ">> \o call.in.devices[1].instances[1].id

\* C25: every registry key handle a parser opened has been passed to
\* CloseKey when the parser returns, on every path, those included on which
\* reading a value failed after the handle was opened.
C25_KeysClosed == unclosed_keys = {}

\* what the loop over the rows of a browser's database has appended when
\* it ends or raises; nothing when the rows were never reached
AppendedFrom(db, browser_name) ==
    IF Readable(db) THEN history_rows(db.rows, 1, browser_name, window) ELSE <<>>

\* the profile directories that contain places.sqlite, in glob order
WithPlaces(profiles) ==
    SelectSeq(profiles.dirs, LAMBDA d : d.places.exists # "no")

\* C26: in parse_browser_history a failure on one browser removes no
\* Finding appended for that or an earlier browser and does not keep the
\* later browsers from being processed: the result is what Chrome, then
\* Edge, then Firefox appended, each up to its own failure.  Of the
\* Firefox profiles only the first that contains places.sqlite is read,
\* whether or not reading it fails.
C26_BrowsersIndependent ==
    (call.op = "parse_browser_history" /\ call.in.localappdata /\ call.in.appdata) =>
        LET found == call.out.findings
            with == WithPlaces(call.in.profiles)
        IN  /\ found = FindingsOf(found, "Chrome Browser")
                       \o FindingsOf(found, "Edge Browser")
                       \o FindingsOf(found, "Firefox Browser")
            /\ FindingsOf(found, "Chrome Browser")
                   = AppendedFrom(call.in.Chrome, "Chrome")
            /\ FindingsOf(found, "Edge Browser") = AppendedFrom(call.in.Edge, "Edge")
            /\ FindingsOf(found, "Firefox Browser")
                   = IF call.in.profiles.exists = "yes" /\ with # <<>>
                     THEN AppendedFrom(with[1].places, "Firefox")
                     ELSE <<>>

\* C26 witness: Chrome's second row raises after its first was reported;
\* that Finding is kept and Edge and Firefox each add their own.
C26_Witness ==
    /\ call.op = "parse_browser_history"
    /\ Len(call.in.Chrome.rows) = 2
    /\ history_rows_raise(call.in.Chrome.rows, 1, "Chrome")
    /\ Len(call.out.findings) = 3
    /\ call.out.findings[1].source = "Chrome Browser"
    /\ call.out.findings[2].source = "Edge Browser"
    /\ call.out.findings[3].source = "Firefox Browser"

\* C26 witness for Firefox: the first profile's places.sqlite cannot be
\* read, a second profile holds a visit inside the window, and no Firefox
\* Finding is returned.
C26_FirefoxWitness ==
    /\ call.op = "parse_browser_history"
    /\ Len(call.in.profiles.dirs) = 2
    /\ call.in.profiles.dirs[1].places.exists = "yes"
    /\ call.in.profiles.dirs[1].places.query = "fails"
    /\ Len(AppendedFrom(call.in.profiles.dirs[2].places, "Firefox")) = 1
    /\ FindingsOf(call.out.findings, "Firefox Browser") = <<>>

=============================================================================
